---- MODULE Spec2Model ----
(***************************************************************************)
(* Content-validation and data-loading utilities of the portfolio /        *)
(* training site: detectContentChanges, the zod content schemas,           *)
(* loadYamlFile, validateYamlFile, validateMarkdownFile,                    *)
(* validateAllContent, the astro:build:start content-validation hook and    *)
(* calculateAverageRating.                                                  *)
(*                                                                         *)
(* JavaScript values are modelled as tagged records:                        *)
(*   [t |-> "number", n |-> k]   the number k/10 (tenths, so 4.5 is 45)     *)
(*   [t |-> "string", s |-> ..], [t |-> "boolean", b |-> ..],               *)
(*   [t |-> "array", a |-> <<..>>], [t |-> "object", keys |-> <<..>>,       *)
(*   vals |-> <<..>>], [t |-> "undefined"], [t |-> "null"],                 *)
(*   [t |-> "function"].                                                    *)
(***************************************************************************)
EXTENDS Integers, Sequences, FiniteSets, TLC

VARIABLES
  call,     \* the invocation in progress: operation name and its arguments
  ret,      \* what the invocation returned ([t |-> "pending"] before it ran)
  fs,       \* the file-system snapshot the operations read
  pc,       \* position of the build: "idle", "building", "aborted", "done";
            \* of a call in steps: what it has matched or still has to do
  console   \* lines printed by the build hook with console.error

vars == <<call, ret, fs, pc, console>>

Pending == [t |-> "pending"]

(***************************************************************************)
(* Generic helpers                                                         *)
(***************************************************************************)
Range(s) == {s[i] : i \in 1..Len(s)}

RECURSIVE SeqsUpTo(_, _)
\* all sequences over S of length at most n
SeqsUpTo(S, n) ==
  IF n = 0 THEN {<<>>}
  ELSE LET shorter == SeqsUpTo(S, n - 1)
       IN  shorter \cup {Append(q, x) : q \in shorter, x \in S}

(***************************************************************************)
(* Content manifests and detectContentChanges                              *)
(***************************************************************************)
\* bounds of the manifest inputs
MaxManifestFiles == 2
MaxTime == 2

\* file paths used as manifest keys: generateContentManifest joins every
\* key from the base path, src/data or src/content, and the names below it
ManifestPaths == {"src/data/resume.yaml", "src/data/products/course-1.yaml",
                  "src/content/post.md"}

\* property names every plain object inherits from Object.prototype
ObjectPrototypeKeys ==
  {"constructor", "hasOwnProperty", "isPrototypeOf", "propertyIsEnumerable",
   "toLocaleString", "toString", "valueOf", "__proto__", "__defineGetter__",
   "__defineSetter__", "__lookupGetter__", "__lookupSetter__"}

Times == 1..MaxTime

\* a manifest is a plain object: its own entries in insertion order
Manifests(n) ==
  {m \in SeqsUpTo([file : ManifestPaths, time : Times], n) :
     \A i, j \in 1..Len(m) : m[i].file = m[j].file => i = j}

OwnKeys(m) == {m[i].file : i \in 1..Len(m)}

\* JavaScript `key in obj`: own or inherited property
JsIn(key, m) == key \in OwnKeys(m) \/ key \in ObjectPrototypeKeys

\* JavaScript `obj[key]`
JsGet(m, key) ==
  IF key \in OwnKeys(m)
    THEN [t |-> "number", n |-> (CHOOSE e \in Range(m) : e.file = key).time]
  ELSE IF key \in ObjectPrototypeKeys
    THEN [t |-> IF key = "__proto__" THEN "object" ELSE "function"]
  ELSE [t |-> "undefined"]

\* variant: every entry of the new manifest counts as added
AddedLoopAll(entries, old) == [i \in 1..Len(entries) |-> entries[i].file]

RECURSIVE AddedLoop(_, _)
AddedLoop(entries, old) ==
  IF entries = <<>> THEN <<>>
  ELSE LET e == Head(entries)
           rest == AddedLoop(Tail(entries), old)
       IN  IF ~JsIn(e.file, old) THEN <<e.file>> \o rest ELSE rest

RECURSIVE ModifiedLoopNewerOnly(_, _)
\* variant: a shared path counts as modified only when its new time is later
ModifiedLoopNewerOnly(entries, old) ==
  IF entries = <<>> THEN <<>>
  ELSE LET e == Head(entries)
           rest == ModifiedLoopNewerOnly(Tail(entries), old)
       IN  IF JsIn(e.file, old) /\ JsGet(old, e.file).t = "number"
              /\ JsGet(old, e.file).n < e.time
             THEN <<e.file>> \o rest ELSE rest

RECURSIVE ModifiedLoop(_, _)
ModifiedLoop(entries, old) ==
  IF entries = <<>> THEN <<>>
  ELSE LET e == Head(entries)
           rest == ModifiedLoop(Tail(entries), old)
       IN  IF JsIn(e.file, old)
              /\ JsGet(old, e.file) # [t |-> "number", n |-> e.time]
             THEN <<e.file>> \o rest ELSE rest

RECURSIVE DeletedLoop(_, _)
DeletedLoop(entries, new) ==
  IF entries = <<>> THEN <<>>
  ELSE LET e == Head(entries)
           rest == DeletedLoop(Tail(entries), new)
       IN  IF ~JsIn(e.file, new) THEN <<e.file>> \o rest ELSE rest

detectContentChanges(oldManifest, newManifest) ==
  [added    |-> AddedLoop(newManifest, oldManifest),
   modified |-> ModifiedLoop(newManifest, oldManifest),
   deleted  |-> DeletedLoop(oldManifest, newManifest)]

\* no file system, no build: the pure-function specifications leave these alone
NoFs == <<>>
PureInit == fs = NoFs /\ pc = "idle" /\ console = <<>> /\ ret = Pending

InitManifest ==
  /\ PureInit
  /\ \E o \in Manifests(MaxManifestFiles), n \in Manifests(MaxManifestFiles) :
       call = [op |-> "detectContentChanges", old |-> o, new |-> n]

DetectContentChanges ==
  /\ call.op = "detectContentChanges"
  /\ ret = Pending
  /\ ret' = detectContentChanges(call.old, call.new)
  /\ UNCHANGED <<call, fs, pc, console>>

NextManifest == DetectContentChanges

SpecManifest == InitManifest /\ [][NextManifest]_vars

Shared(o, n) == OwnKeys(o) \cap OwnKeys(n)
TimeOf(m, p) == (CHOOSE e \in Range(m) : e.file = p).time

\* C1: detectContentChanges(old, new) puts a path in `added` iff it is a key
\* of new and not of old, in `modified` iff it is a key of both with differing
\* timestamps, in `deleted` iff it is a key of old and not of new (so an
\* unchanged shared path is in no list), and the three lengths are the numbers
\* of new-only keys, changed shared keys and old-only keys.
C1_ChangesExact ==
  (call.op = "detectContentChanges" /\ ret # Pending) =>
    LET o == call.old
        n == call.new
        changed == {p \in Shared(o, n) : TimeOf(o, p) # TimeOf(n, p)}
    IN  /\ Range(ret.added) = OwnKeys(n) \ OwnKeys(o)
        /\ Range(ret.modified) = changed
        /\ Range(ret.deleted) = OwnKeys(o) \ OwnKeys(n)
        /\ Len(ret.added) = Cardinality(OwnKeys(n) \ OwnKeys(o))
        /\ Len(ret.modified) = Cardinality(changed)
        /\ Len(ret.deleted) = Cardinality(OwnKeys(o) \ OwnKeys(n))

\* two manifests of two files: one file only in the old one, one only in
\* the new one and one in both with another time, each in its list
C1_OneOfEachKind ==
  /\ call.op = "detectContentChanges" /\ ret # Pending
  /\ Len(ret.added) = 1 /\ Len(ret.modified) = 1 /\ Len(ret.deleted) = 1
  /\ TimeOf(call.new, ret.modified[1]) < TimeOf(call.old, ret.modified[1])

(***************************************************************************)
(* calculateAverageRating                                                  *)
(***************************************************************************)
\* bounds of the testimonial lists
MaxTestimonials == 3
MaxRating == 6

Num(tenths) == [t |-> "number", n |-> tenths]
Null == [t |-> "null"]

CourseSlugs == {"course-1", "course-2"}
\* integer ratings 0..MaxRating, held in tenths
RatingValues == {10 * k : k \in 0..MaxRating}
TestimonialLists(n) == SeqsUpTo([courseSlug : CourseSlugs, rating : RatingValues], n)

\* testimonials.filter(t => t.courseSlug === courseSlug)
RECURSIVE FilterByCourse(_, _)
FilterByCourse(testimonials, courseSlug) ==
  IF testimonials = <<>> THEN <<>>
  ELSE LET rest == FilterByCourse(Tail(testimonials), courseSlug)
       IN  IF Head(testimonials).courseSlug = courseSlug
             THEN <<Head(testimonials)>> \o rest
             ELSE rest

\* courseTestimonials.reduce((acc, t) => acc + t.rating, 0), in tenths
RECURSIVE SumRatings(_)
SumRatings(ts) ==
  IF ts = <<>> THEN 0 ELSE Head(ts).rating + SumRatings(Tail(ts))

\* Math.round(x) for x = num / den (den > 0): floor(x + 1/2)
MathRound(num, den) == (2 * num + den) \div (2 * den)

calculateAverageRatingNoFilter(testimonials, courseSlug) ==
  IF Len(testimonials) = 0 THEN Null
  ELSE Num(MathRound(SumRatings(testimonials), Len(testimonials)))

calculateAverageRatingZeroWhenEmpty(testimonials, courseSlug) ==
  LET courseTestimonials == FilterByCourse(testimonials, courseSlug)
  IN  IF Len(courseTestimonials) = 0 THEN Num(0)
      ELSE Num(MathRound(SumRatings(courseTestimonials), Len(courseTestimonials)))

\* the result in tenths: Math.round((sum / length) * 10) / 10
calculateAverageRating(testimonials, courseSlug) ==
  LET courseTestimonials == FilterByCourse(testimonials, courseSlug)
  IN  IF Len(courseTestimonials) = 0 THEN Null
      ELSE Num(MathRound(SumRatings(courseTestimonials), Len(courseTestimonials)))

\* the matching testimonials, last one first
RECURSIVE getTestimonialsForCourseReversed(_, _)
getTestimonialsForCourseReversed(testimonials, courseSlug) ==
  IF testimonials = <<>> THEN <<>>
  ELSE LET rest == getTestimonialsForCourseReversed(Tail(testimonials), courseSlug)
       IN  IF Head(testimonials).courseSlug = courseSlug
             THEN rest \o <<Head(testimonials)>>
             ELSE rest

\* testimonials.filter(t => t.courseSlug === courseSlug): a new array
getTestimonialsForCourse(testimonials, courseSlug) ==
  FilterByCourse(testimonials, courseSlug)

RatingOps == {"calculateAverageRating", "getTestimonialsForCourse"}

InitRating ==
  /\ PureInit
  /\ \E ts \in TestimonialLists(MaxTestimonials), c \in CourseSlugs, op \in RatingOps :
       call = [op |-> op, testimonials |-> ts, courseSlug |-> c]

CalculateAverageRating ==
  /\ call.op = "calculateAverageRating"
  /\ ret = Pending
  /\ ret' = calculateAverageRating(call.testimonials, call.courseSlug)
  /\ UNCHANGED <<call, fs, pc, console>>

\* the argument array is left as it was (filter does not mutate)
GetTestimonialsForCourse ==
  /\ call.op = "getTestimonialsForCourse"
  /\ ret = Pending
  /\ ret' = [t |-> "array",
             a |-> getTestimonialsForCourse(call.testimonials, call.courseSlug)]
  /\ UNCHANGED <<call, fs, pc, console>>

NextRating ==
  \/ CalculateAverageRating
  \/ GetTestimonialsForCourse

SpecRating == InitRating /\ [][NextRating]_vars

MatchingIdx(ts, c) == {i \in 1..Len(ts) : ts[i].courseSlug = c}

RECURSIVE SumOver(_, _)
SumOver(ts, I) ==
  IF I = {} THEN 0
  ELSE LET i == CHOOSE i \in I : TRUE IN ts[i].rating + SumOver(ts, I \ {i})

\* C9: when at least one testimonial matches the course and all matching
\* ratings are integers in [1,5], the result r is the mean of exactly the
\* matching ratings rounded to the nearest tenth (half up), 1 <= r <= 5, and
\* with a single matching testimonial r is that testimonial's rating.
C9_AverageIsRoundedMean ==
  (call.op = "calculateAverageRating" /\ ret # Pending) =>
    LET ts == call.testimonials
        I == MatchingIdx(ts, call.courseSlug)
        k == Cardinality(I)
        sum == SumOver(ts, I)
    IN  (I # {} /\ \A i \in I : ts[i].rating \in {10, 20, 30, 40, 50}) =>
          /\ ret.t = "number"
          /\ (2 * ret.n - 1) * k <= 2 * sum
          /\ 2 * sum < (2 * ret.n + 1) * k
          /\ 10 <= ret.n /\ ret.n <= 50
          /\ (k = 1 => \A i \in I : ret.n = ts[i].rating)

\* a fractional mean (4.5) was computed from the two matching testimonials
\* while another course's testimonial sat between them in the list
C9_RoundedCase ==
  /\ call.op = "calculateAverageRating" /\ ret # Pending
  /\ call.testimonials = <<[courseSlug |-> "course-1", rating |-> 50],
                           [courseSlug |-> "course-2", rating |-> 10],
                           [courseSlug |-> "course-1", rating |-> 40]>>
  /\ call.courseSlug = "course-1"
  /\ ret = Num(45)

\* C10: the result is null exactly when no testimonial has the given
\* courseSlug; otherwise it is a number.
C10_NullIffNoMatch ==
  (call.op = "calculateAverageRating" /\ ret # Pending) =>
    LET I == MatchingIdx(call.testimonials, call.courseSlug)
    IN  /\ (ret = Null) <=> (I = {})
        /\ (I # {}) => ret.t = "number"
        /\ (I = {}) => ret.t # "number"

\* a non-empty list without any testimonial of the course gave null
C10_NoMatchCase ==
  /\ call.op = "calculateAverageRating" /\ ret = Null
  /\ Len(call.testimonials) > 0

\* the k-th smallest index of I
KthIdx(I, k) == CHOOSE i \in I : Cardinality({j \in I : j < i}) = k - 1

\* C11: getTestimonialsForCourse returns exactly the matching testimonials,
\* each once, whole, in their original relative order (the empty list when
\* none matches), and leaves the input list as it was.
C11_FilterIsMatchingSubsequence ==
  [][(call.op = "getTestimonialsForCourse" /\ ret = Pending /\ ret' # Pending) =>
       LET ts == call.testimonials
           I == MatchingIdx(ts, call.courseSlug)
       IN  /\ call' = call
           /\ Len(ret'.a) = Cardinality(I)
           /\ \A k \in 1..Len(ret'.a) : ret'.a[k] = ts[KthIdx(I, k)]
           /\ (I = {}) => ret'.a = <<>>]_vars

\* two matching testimonials with different ratings were returned in input
\* order, the other course's testimonial between them left out
C11_OrderKeptCase ==
  /\ call.op = "getTestimonialsForCourse" /\ ret # Pending
  /\ call.testimonials = <<[courseSlug |-> "course-1", rating |-> 50],
                           [courseSlug |-> "course-2", rating |-> 10],
                           [courseSlug |-> "course-1", rating |-> 40]>>
  /\ call.courseSlug = "course-1"
  /\ ret.a = <<[courseSlug |-> "course-1", rating |-> 50],
               [courseSlug |-> "course-1", rating |-> 40]>>

(***************************************************************************)
(* JavaScript values and the zod schema language used by the schemas       *)
(***************************************************************************)
Str(x) == [t |-> "string", s |-> x]
Bool(x) == [t |-> "boolean", b |-> x]
Arr(x) == [t |-> "array", a |-> x]
Obj(x) == [t |-> "object", f |-> x]
Undefined == [t |-> "undefined"]

\* obj[key] on a parsed document: undefined when the key is absent
Field(f, key) == IF key \in DOMAIN f THEN f[key] ELSE Undefined

\* schema constructors: z.string(), z.number(), z.boolean(), z.array(e),
\* z.object(shape), x.optional(), x.default(v); a check's message "" stands
\* for "no custom message given"
ZString(checks) == [kind |-> "string", checks |-> checks]
ZNumber(checks) == [kind |-> "number", checks |-> checks]
ZBoolean == [kind |-> "boolean"]
ZArray(element, checks) == [kind |-> "array", element |-> element, checks |-> checks]
ZObject(shape) == [kind |-> "object", shape |-> shape]
ZOptional(inner) == [kind |-> "optional", inner |-> inner]
ZDefault(inner, value) == [kind |-> "default", inner |-> inner, value |-> value]
Key(k, schema) == [key |-> k, schema |-> schema]
\* .min(v, message) / .max(v, message) / .positive() / .nonnegative() /
\* .int() / .url(message) / .email(message)
Min(v, message) == [check |-> "min", value |-> v, inclusive |-> TRUE, message |-> message]
Max(v, message) == [check |-> "max", value |-> v, inclusive |-> TRUE, message |-> message]
Positive == [check |-> "min", value |-> 0, inclusive |-> FALSE, message |-> ""]
NonNegative == [check |-> "min", value |-> 0, inclusive |-> TRUE, message |-> ""]
IsInt == [check |-> "int", value |-> 0, inclusive |-> TRUE, message |-> ""]
Url(message) == [check |-> "url", value |-> 0, inclusive |-> TRUE, message |-> message]
Email(message) == [check |-> "email", value |-> 0, inclusive |-> TRUE, message |-> message]

\* the strings of the model for which `new URL(s)` succeeds, and those that
\* match zod's e-mail pattern
WellFormedUrls == {"https://example.com/repo"}
WellFormedEmails == {"me@example.com"}

\* a key of an issue with the JSON text of its value
Member(key, json) == [key |-> key, json |-> json]
Quoted(text) == "\"" \o text \o "\""
JsonBoolean(value) == IF value THEN "true" ELSE "false"

\* the `message` key where the data of an issue carry it: before `path`
MessageKey == Member("message", "")

\* an issue: the keys zod's code gives it (`data`, in the order written
\* there), then path, then message unless the data had that key; an index
\* in a path is carried as its decimal numeral
Issue(data, path, message) == [data |-> data, path |-> path, message |-> message]
Custom(message, default) == IF message = "" THEN default ELSE message

\* zod's invalid_type issue: "Required" for undefined
TypeIssue(expected, value, path) ==
  Issue(<<Member("code", Quoted("invalid_type")), Member("expected", Quoted(expected)),
          Member("received", Quoted(value.t))>>,
        path,
        IF value.t = "undefined" THEN "Required"
        ELSE "Expected " \o expected \o ", received " \o value.t)

\* the keys of a too_small / too_big issue
SizeData(code, limit, value, type, inclusive) ==
  <<Member("code", Quoted(code)), Member(limit, ToString(value)),
    Member("type", Quoted(type)), Member("inclusive", JsonBoolean(inclusive)),
    Member("exact", JsonBoolean(FALSE)), MessageKey>>

StringCheckData(c) ==
  CASE c.check = "min" -> SizeData("too_small", "minimum", c.value, "string", TRUE)
    [] OTHER -> <<Member("validation", Quoted(c.check)),
                  Member("code", Quoted("invalid_string")), MessageKey>>

NumberCheckData(c) ==
  CASE c.check = "min" -> SizeData("too_small", "minimum", c.value, "number", c.inclusive)
    [] c.check = "max" -> SizeData("too_big", "maximum", c.value, "number", c.inclusive)
    [] OTHER -> <<Member("code", Quoted("invalid_type")), Member("expected", Quoted("integer")),
                  Member("received", Quoted("float")), MessageKey>>

StringCheckFails(c, str) ==
  CASE c.check = "min" -> Len(str) < c.value
    [] c.check = "url" -> str \notin WellFormedUrls
    [] c.check = "email" -> str \notin WellFormedEmails
    [] OTHER -> FALSE

StringCheckMessage(c) ==
  CASE c.check = "min" ->
         Custom(c.message, "String must contain at least " \o ToString(c.value) \o " character(s)")
    [] c.check = "url" -> Custom(c.message, "Invalid url")
    [] c.check = "email" -> Custom(c.message, "Invalid email")
    [] OTHER -> c.message

\* n is in tenths, the check's value in units
NumberCheckFails(c, n) ==
  CASE c.check = "min" -> IF c.inclusive THEN n < 10 * c.value ELSE n <= 10 * c.value
    [] c.check = "max" -> n > 10 * c.value
    [] c.check = "int" -> n % 10 # 0
    [] OTHER -> FALSE

NumberCheckMessage(c) ==
  CASE c.check = "min" ->
         Custom(c.message, (IF c.inclusive THEN "Number must be greater than or equal to "
                            ELSE "Number must be greater than ") \o ToString(c.value))
    [] c.check = "max" ->
         Custom(c.message, "Number must be less than or equal to " \o ToString(c.value))
    [] c.check = "int" -> Custom(c.message, "Expected integer, received float")
    [] OTHER -> c.message

\* every failing check adds its issue; checking goes on after a failure
RECURSIVE StringCheckIssues(_, _, _)
StringCheckIssues(checks, str, path) ==
  IF checks = <<>> THEN <<>>
  ELSE (IF StringCheckFails(Head(checks), str)
          THEN <<Issue(StringCheckData(Head(checks)), path,
                       StringCheckMessage(Head(checks)))>>
          ELSE <<>>)
       \o StringCheckIssues(Tail(checks), str, path)

RECURSIVE NumberCheckIssues(_, _, _)
NumberCheckIssues(checks, n, path) ==
  IF checks = <<>> THEN <<>>
  ELSE (IF NumberCheckFails(Head(checks), n)
          THEN <<Issue(NumberCheckData(Head(checks)), path,
                       NumberCheckMessage(Head(checks)))>>
          ELSE <<>>)
       \o NumberCheckIssues(Tail(checks), n, path)

ArrayCheckIssues(checks, arr, path) ==
  IF checks # <<>> /\ Len(arr) < Head(checks).value
    THEN <<Issue(SizeData("too_small", "minimum", Head(checks).value, "array", TRUE), path,
                 Custom(Head(checks).message,
                   "Array must contain at least " \o ToString(Head(checks).value)
                     \o " element(s)"))>>
    ELSE <<>>

RECURSIVE Issues(_, _, _)
RECURSIVE ElementIssues(_, _, _, _)
RECURSIVE ShapeIssues(_, _, _, _)

\* the issues of elements i.. of an array, each under path + index
ElementIssues(element, arr, path, i) ==
  IF i > Len(arr) THEN <<>>
  ELSE Issues(element, arr[i], Append(path, ToString(i - 1)))
       \o ElementIssues(element, arr, path, i + 1)

\* the issues of the shape's keys i.., in declaration order
ShapeIssues(shape, f, path, i) ==
  IF i > Len(shape) THEN <<>>
  ELSE Issues(shape[i].schema, Field(f, shape[i].key), Append(path, shape[i].key))
       \o ShapeIssues(shape, f, path, i + 1)

\* the list of issues zod collects for `value` under `schema`: all of them
Issues(schema, value, path) ==
  CASE schema.kind = "optional" ->
         IF value.t = "undefined" THEN <<>> ELSE Issues(schema.inner, value, path)
    [] schema.kind = "default" ->
         Issues(schema.inner, IF value.t = "undefined" THEN schema.value ELSE value, path)
    [] schema.kind = "string" ->
         IF value.t # "string" THEN <<TypeIssue("string", value, path)>>
         ELSE StringCheckIssues(schema.checks, value.s, path)
    [] schema.kind = "number" ->
         IF value.t # "number" THEN <<TypeIssue("number", value, path)>>
         ELSE NumberCheckIssues(schema.checks, value.n, path)
    [] schema.kind = "boolean" ->
         IF value.t # "boolean" THEN <<TypeIssue("boolean", value, path)>> ELSE <<>>
    [] schema.kind = "array" ->
         IF value.t # "array" THEN <<TypeIssue("array", value, path)>>
         ELSE ArrayCheckIssues(schema.checks, value.a, path)
              \o ElementIssues(schema.element, value.a, path, 1)
    [] schema.kind = "object" ->
         IF value.t # "object" THEN <<TypeIssue("object", value, path)>>
         ELSE ShapeIssues(schema.shape, value.f, path, 1)

AllIssues(schema, value) == Issues(schema, value, <<>>)

\* schema.safeParse(value); the parsed data on success is modelled by Output
RECURSIVE Output(_, _)
RECURSIVE OutputElements(_, _, _)
OutputElements(element, arr, i) ==
  IF i > Len(arr) THEN <<>>
  ELSE <<Output(element, arr[i])>> \o OutputElements(element, arr, i + 1)

ShapeKeys(shape) == {shape[i].key : i \in 1..Len(shape)}
SchemaOf(shape, k) == (CHOOSE e \in Range(shape) : e.key = k).schema

\* defaults are filled in, unknown keys are stripped
Output(schema, value) ==
  CASE schema.kind = "optional" ->
         IF value.t = "undefined" THEN value ELSE Output(schema.inner, value)
    [] schema.kind = "default" ->
         Output(schema.inner, IF value.t = "undefined" THEN schema.value ELSE value)
    [] schema.kind = "array" -> Arr(OutputElements(schema.element, value.a, 1))
    [] schema.kind = "object" ->
         LET kept == {k \in ShapeKeys(schema.shape) :
                        Output(SchemaOf(schema.shape, k), Field(value.f, k)).t # "undefined"}
         IN  Obj([k \in kept |-> Output(SchemaOf(schema.shape, k), Field(value.f, k))])
    [] OTHER -> value

safeParse(schema, value) ==
  LET issues == AllIssues(schema, value)
  IN  IF issues = <<>>
        THEN [success |-> TRUE, data |-> Output(schema, value), issues |-> <<>>]
        ELSE [success |-> FALSE, data |-> Undefined, issues |-> issues]

(***************************************************************************)
(* The content schemas                                                     *)
(***************************************************************************)
productSchema == ZObject(<<
  Key("title", ZString(<<Min(1, "Title is required")>>)),
  Key("description", ZString(<<Min(1, "Description is required")>>)),
  Key("duration", ZString(<<Min(1, "Duration is required")>>)),
  Key("price", ZOptional(ZNumber(<<Positive>>))),
  Key("image", ZString(<<Min(1, "Image path is required")>>)),
  Key("featured", ZDefault(ZBoolean, Bool(FALSE))),
  Key("category", ZString(<<Min(1, "Category is required")>>)),
  Key("prerequisites", ZOptional(ZArray(ZString(<<>>), <<>>))),
  Key("learningOutcomes",
      ZArray(ZString(<<>>), <<Min(1, "At least one learning outcome is required")>>))>>)

testimonialRating == ZNumber(<<Min(1, ""), Max(5, "Rating must be between 1 and 5")>>)

testimonialSchema == ZObject(<<
  Key("id", ZString(<<Min(1, "ID is required")>>)),
  Key("authorName", ZString(<<Min(1, "Author name is required")>>)),
  Key("courseSlug", ZString(<<Min(1, "Course slug is required")>>)),
  Key("rating", testimonialRating),
  Key("text", ZString(<<Min(1, "Testimonial text is required")>>)),
  Key("date", ZString(<<Min(1, "Date is required")>>)),
  Key("verified", ZDefault(ZBoolean, Bool(FALSE)))>>)

testimonialsFileSchema == ZObject(<<Key("testimonials", ZArray(testimonialSchema, <<>>))>>)

repositorySchema == ZObject(<<
  Key("name", ZString(<<Min(1, "Repository name is required")>>)),
  Key("description", ZString(<<Min(1, "Description is required")>>)),
  Key("url", ZString(<<Url("Must be a valid URL")>>)),
  Key("technologies", ZArray(ZString(<<>>), <<>>)),
  Key("featured", ZDefault(ZBoolean, Bool(FALSE))),
  Key("stars", ZOptional(ZNumber(<<NonNegative>>)))>>)

repositoriesFileSchema == ZObject(<<Key("repositories", ZArray(repositorySchema, <<>>))>>)

\* a publication schema that forgets the bounds of the year
publicationSchemaAnyYear == ZObject(<<
  Key("title", ZString(<<Min(1, "Publication title is required")>>)),
  Key("authors", ZArray(ZString(<<>>), <<Min(1, "At least one author is required")>>)),
  Key("venue", ZString(<<Min(1, "Venue is required")>>)),
  Key("year", ZNumber(<<IsInt>>)),
  Key("url", ZOptional(ZString(<<Url("")>>))),
  Key("downloadUrl", ZOptional(ZString(<<Url("")>>))),
  Key("abstract", ZOptional(ZString(<<>>)))>>)

publicationSchema == ZObject(<<
  Key("title", ZString(<<Min(1, "Publication title is required")>>)),
  Key("authors", ZArray(ZString(<<>>), <<Min(1, "At least one author is required")>>)),
  Key("venue", ZString(<<Min(1, "Venue is required")>>)),
  Key("year", ZNumber(<<IsInt, Min(1900, ""), Max(2100, "")>>)),
  Key("url", ZOptional(ZString(<<Url("")>>))),
  Key("downloadUrl", ZOptional(ZString(<<Url("")>>))),
  Key("abstract", ZOptional(ZString(<<>>)))>>)

publicationsFileSchema == ZObject(<<Key("publications", ZArray(publicationSchema, <<>>))>>)

personalInfoSchema == ZObject(<<
  Key("name", ZString(<<Min(1, "Name is required")>>)),
  Key("title", ZString(<<Min(1, "Title is required")>>)),
  Key("email", ZString(<<Email("Must be a valid email")>>)),
  Key("phone", ZOptional(ZString(<<>>))),
  Key("location", ZOptional(ZString(<<>>))),
  Key("summary", ZOptional(ZString(<<>>)))>>)

experienceSchema == ZObject(<<
  Key("company", ZString(<<Min(1, "Company name is required")>>)),
  Key("position", ZString(<<Min(1, "Position is required")>>)),
  Key("startDate", ZString(<<Min(1, "Start date is required")>>)),
  Key("endDate", ZOptional(ZString(<<>>))),
  Key("description", ZOptional(ZString(<<>>))),
  Key("achievements", ZOptional(ZArray(ZString(<<>>), <<>>)))>>)

certificationSchema == ZObject(<<
  Key("name", ZString(<<Min(1, "Certification name is required")>>)),
  Key("issuer", ZString(<<Min(1, "Issuer is required")>>)),
  Key("date", ZString(<<Min(1, "Date is required")>>)),
  Key("credentialId", ZOptional(ZString(<<>>))),
  Key("credentialUrl", ZOptional(ZString(<<Url("")>>)))>>)

skillCategorySchema == ZObject(<<
  Key("category", ZString(<<Min(1, "Category is required")>>)),
  Key("items", ZArray(ZString(<<>>), <<Min(1, "At least one skill item is required")>>))>>)

resumeFileSchema == ZObject(<<
  Key("personalInfo", personalInfoSchema),
  Key("experience", ZOptional(ZArray(experienceSchema, <<>>))),
  Key("certifications", ZOptional(ZArray(certificationSchema, <<>>))),
  Key("skills", ZOptional(ZArray(skillCategorySchema, <<>>)))>>)

SchemaNames == {"product", "testimonial", "repository", "publication", "resume"}

SchemaNamed(name) ==
  CASE name = "product" -> productSchema
    [] name = "testimonial" -> testimonialSchema
    [] name = "repository" -> repositorySchema
    [] name = "publication" -> publicationSchema
    [] name = "resume" -> resumeFileSchema
    [] name = "testimonials" -> testimonialsFileSchema
    [] name = "repositories" -> repositoriesFileSchema
    [] name = "publications" -> publicationsFileSchema

(***************************************************************************)
(* Sample records: one record per schema that satisfies every constraint,  *)
(* and the modifications applied to it.  A modification replaces the value *)
(* at a path (Undefined removes the key); `errors` lists the entries the   *)
(* schema's constraints and messages require for it, written by hand from  *)
(* the schema text ("valid" modifications keep the record valid).          *)
(***************************************************************************)
\* how many modifications one input record carries at most
MaxViolations == 2

M(path, value, kind, errors) ==
  [path |-> path, value |-> value, kind |-> kind, errors |-> errors]

validProduct == Obj([
  title |-> Str("AI Engineering"), description |-> Str("Hands-on course"),
  duration |-> Str("2 days"), price |-> Num(4990), image |-> Str("~/assets/ai.png"),
  featured |-> Bool(TRUE), category |-> Str("AI"),
  prerequisites |-> Arr(<<Str("Python")>>),
  learningOutcomes |-> Arr(<<Str("Build agents")>>),
  draft |-> Bool(FALSE)])

validTestimonial == Obj([
  id |-> Str("t1"), authorName |-> Str("Ann"), courseSlug |-> Str("course-1"),
  rating |-> Num(40), text |-> Str("Great"), date |-> Str("2024-01-01"),
  verified |-> Bool(TRUE)])

validRepository == Obj([
  name |-> Str("dabozai"), description |-> Str("Site"),
  url |-> Str("https://example.com/repo"), technologies |-> Arr(<<Str("ts")>>),
  featured |-> Bool(FALSE), stars |-> Num(120)])

validPublication == Obj([
  title |-> Str("Paper"), authors |-> Arr(<<Str("A. Author")>>), venue |-> Str("Conf"),
  year |-> Num(20240), url |-> Str("https://example.com/repo"),
  abstract |-> Str("Abstract")])

validResume == Obj([
  personalInfo |-> Obj([name |-> Str("Zu"), title |-> Str("Engineer"),
                        email |-> Str("me@example.com"), phone |-> Str("123")]),
  experience |-> Arr(<<Obj([company |-> Str("Acme"), position |-> Str("Dev"),
                            startDate |-> Str("2020-01")])>>),
  certifications |-> Arr(<<Obj([name |-> Str("Cert"), issuer |-> Str("Org"),
                                date |-> Str("2021"),
                                credentialUrl |-> Str("https://example.com/repo")])>>),
  skills |-> Arr(<<Obj([category |-> Str("Languages"),
                        items |-> Arr(<<Str("TypeScript")>>)])>>)])

ValidRecord(name) ==
  CASE name = "product" -> validProduct
    [] name = "testimonial" -> validTestimonial
    [] name = "repository" -> validRepository
    [] name = "publication" -> validPublication
    [] name = "resume" -> validResume

productMods == {
   M(<<"price">>, Undefined, "valid", <<>>),
   M(<<"price">>, Num(5), "valid", <<>>),
   M(<<"featured">>, Undefined, "valid", <<>>),
   M(<<"prerequisites">>, Undefined, "valid", <<>>),
   M(<<"prerequisites">>, Arr(<<>>), "valid", <<>>),
   M(<<"title">>, Str(""), "empty", <<"title: Title is required">>),
   M(<<"description">>, Str(""), "empty", <<"description: Description is required">>),
   M(<<"duration">>, Str(""), "empty", <<"duration: Duration is required">>),
   M(<<"image">>, Str(""), "empty", <<"image: Image path is required">>),
   M(<<"category">>, Str(""), "empty", <<"category: Category is required">>),
   M(<<"learningOutcomes">>, Arr(<<>>), "emptyArray", <<"learningOutcomes: At least one learning outcome is required">>),
   M(<<"price">>, Num(0), "range", <<"price: Number must be greater than 0">>),
   M(<<"price">>, Num(-10), "range", <<"price: Number must be greater than 0">>),
   M(<<"title">>, Undefined, "missing", <<"title: Required">>),
   M(<<"description">>, Undefined, "missing", <<"description: Required">>),
   M(<<"duration">>, Undefined, "missing", <<"duration: Required">>),
   M(<<"image">>, Undefined, "missing", <<"image: Required">>),
   M(<<"category">>, Undefined, "missing", <<"category: Required">>),
   M(<<"learningOutcomes">>, Undefined, "missing", <<"learningOutcomes: Required">>),
   M(<<"title">>, Num(10), "type", <<"title: Expected string, received number">>),
   M(<<"price">>, Null, "type", <<"price: Expected number, received null">>),
   M(<<"featured">>, Str("yes"), "type", <<"featured: Expected boolean, received string">>)}

testimonialMods == {
   M(<<"rating">>, Num(10), "valid", <<>>),
   M(<<"rating">>, Num(50), "valid", <<>>),
   M(<<"verified">>, Undefined, "valid", <<>>),
   M(<<"id">>, Str(""), "empty", <<"id: ID is required">>),
   M(<<"authorName">>, Str(""), "empty", <<"authorName: Author name is required">>),
   M(<<"courseSlug">>, Str(""), "empty", <<"courseSlug: Course slug is required">>),
   M(<<"text">>, Str(""), "empty", <<"text: Testimonial text is required">>),
   M(<<"date">>, Str(""), "empty", <<"date: Date is required">>),
   M(<<"rating">>, Num(0), "range", <<"rating: Number must be greater than or equal to 1">>),
   M(<<"rating">>, Num(60), "range", <<"rating: Rating must be between 1 and 5">>),
   M(<<"rating">>, Num(-10), "range", <<"rating: Number must be greater than or equal to 1">>),
   M(<<"id">>, Undefined, "missing", <<"id: Required">>),
   M(<<"authorName">>, Undefined, "missing", <<"authorName: Required">>),
   M(<<"courseSlug">>, Undefined, "missing", <<"courseSlug: Required">>),
   M(<<"rating">>, Undefined, "missing", <<"rating: Required">>),
   M(<<"text">>, Undefined, "missing", <<"text: Required">>),
   M(<<"date">>, Undefined, "missing", <<"date: Required">>),
   M(<<"rating">>, Num(45), "noninteger", <<>>),
   M(<<"rating">>, Num(25), "noninteger", <<>>),
   M(<<"rating">>, Num(55), "range", <<"rating: Rating must be between 1 and 5">>),
   M(<<"rating">>, Str("5"), "type", <<"rating: Expected number, received string">>)}

repositoryMods == {
   M(<<"technologies">>, Arr(<<>>), "valid", <<>>),
   M(<<"stars">>, Num(0), "valid", <<>>),
   M(<<"stars">>, Undefined, "valid", <<>>),
   M(<<"featured">>, Undefined, "valid", <<>>),
   M(<<"name">>, Str(""), "empty", <<"name: Repository name is required">>),
   M(<<"description">>, Str(""), "empty", <<"description: Description is required">>),
   M(<<"stars">>, Num(-10), "range", <<"stars: Number must be greater than or equal to 0">>),
   M(<<"name">>, Undefined, "missing", <<"name: Required">>),
   M(<<"description">>, Undefined, "missing", <<"description: Required">>),
   M(<<"url">>, Undefined, "missing", <<"url: Required">>),
   M(<<"technologies">>, Undefined, "missing", <<"technologies: Required">>),
   M(<<"url">>, Str("not a url"), "format", <<"url: Must be a valid URL">>),
   M(<<"url">>, Str(""), "format", <<"url: Must be a valid URL">>)}

publicationMods == {
   M(<<"year">>, Num(19000), "valid", <<>>),
   M(<<"year">>, Num(21000), "valid", <<>>),
   M(<<"url">>, Undefined, "valid", <<>>),
   M(<<"abstract">>, Undefined, "valid", <<>>),
   M(<<"title">>, Str(""), "empty", <<"title: Publication title is required">>),
   M(<<"venue">>, Str(""), "empty", <<"venue: Venue is required">>),
   M(<<"authors">>, Arr(<<>>), "emptyArray", <<"authors: At least one author is required">>),
   M(<<"year">>, Num(18990), "range", <<"year: Number must be greater than or equal to 1900">>),
   M(<<"year">>, Num(21010), "range", <<"year: Number must be less than or equal to 2100">>),
   M(<<"title">>, Undefined, "missing", <<"title: Required">>),
   M(<<"authors">>, Undefined, "missing", <<"authors: Required">>),
   M(<<"venue">>, Undefined, "missing", <<"venue: Required">>),
   M(<<"year">>, Undefined, "missing", <<"year: Required">>),
   M(<<"year">>, Num(20245), "type", <<"year: Expected integer, received float">>),
   M(<<"year">>, Num(18995), "type", <<"year: Expected integer, received float", "year: Number must be greater than or equal to 1900">>),
   M(<<"downloadUrl">>, Str("not a url"), "format", <<"downloadUrl: Invalid url">>)}

resumeMods == {
   M(<<"experience">>, Undefined, "valid", <<>>),
   M(<<"certifications">>, Undefined, "valid", <<>>),
   M(<<"skills">>, Undefined, "valid", <<>>),
   M(<<"personalInfo", "phone">>, Undefined, "valid", <<>>),
   M(<<"personalInfo", "name">>, Str(""), "empty", <<"personalInfo.name: Name is required">>),
   M(<<"personalInfo", "title">>, Str(""), "empty", <<"personalInfo.title: Title is required">>),
   M(<<"experience", "0", "company">>, Str(""), "empty", <<"experience.0.company: Company name is required">>),
   M(<<"experience", "0", "position">>, Str(""), "empty", <<"experience.0.position: Position is required">>),
   M(<<"experience", "0", "startDate">>, Str(""), "empty", <<"experience.0.startDate: Start date is required">>),
   M(<<"certifications", "0", "name">>, Str(""), "empty", <<"certifications.0.name: Certification name is required">>),
   M(<<"certifications", "0", "issuer">>, Str(""), "empty", <<"certifications.0.issuer: Issuer is required">>),
   M(<<"certifications", "0", "date">>, Str(""), "empty", <<"certifications.0.date: Date is required">>),
   M(<<"skills", "0", "category">>, Str(""), "empty", <<"skills.0.category: Category is required">>),
   M(<<"skills", "0", "items">>, Arr(<<>>), "emptyArray", <<"skills.0.items: At least one skill item is required">>),
   M(<<"personalInfo">>, Undefined, "missing", <<"personalInfo: Required">>),
   M(<<"personalInfo", "name">>, Undefined, "missing", <<"personalInfo.name: Required">>),
   M(<<"personalInfo", "title">>, Undefined, "missing", <<"personalInfo.title: Required">>),
   M(<<"personalInfo", "email">>, Undefined, "missing", <<"personalInfo.email: Required">>),
   M(<<"experience", "0", "company">>, Undefined, "missing", <<"experience.0.company: Required">>),
   M(<<"certifications", "0", "issuer">>, Undefined, "missing", <<"certifications.0.issuer: Required">>),
   M(<<"skills", "0", "items">>, Undefined, "missing", <<"skills.0.items: Required">>),
   M(<<"personalInfo", "email">>, Str("not an email"), "format", <<"personalInfo.email: Must be a valid email">>),
   M(<<"certifications", "0", "credentialUrl">>, Str("not a url"), "format", <<"certifications.0.credentialUrl: Invalid url">>)}

Mods(name) ==
  CASE name = "product" -> productMods
    [] name = "testimonial" -> testimonialMods
    [] name = "repository" -> repositoryMods
    [] name = "publication" -> publicationMods
    [] name = "resume" -> resumeMods

IsPrefix(p, q) == Len(p) <= Len(q) /\ SubSeq(q, 1, Len(p)) = p

\* sets of modifications that touch unrelated paths
Compatible(S) == \A m1, m2 \in S : m1 # m2 => ~IsPrefix(m1.path, m2.path)

RECURSIVE SubsetsUpTo(_, _)
\* the subsets of S with at most n elements
SubsetsUpTo(S, n) ==
  IF n = 0 THEN {{}}
  ELSE LET smaller == SubsetsUpTo(S, n - 1)
       IN  smaller \cup {T \cup {x} : T \in smaller, x \in S}

ModSets(name) == {S \in SubsetsUpTo(Mods(name), MaxViolations) : Compatible(S)}

\* the value with the value at `path` replaced (array positions: "0")
RECURSIVE SetPath(_, _, _)
SetPath(v, path, nv) ==
  IF path = <<>> THEN nv
  ELSE IF v.t = "object" THEN
    LET k == Head(path)
        child == SetPath(Field(v.f, k), Tail(path), nv)
    IN  IF child.t = "undefined"
          THEN Obj([x \in DOMAIN v.f \ {k} |-> v.f[x]])
          ELSE Obj([x \in DOMAIN v.f \cup {k} |-> IF x = k THEN child ELSE v.f[x]])
  ELSE IF v.t = "array" /\ Head(path) = "0" /\ Len(v.a) >= 1 THEN
    Arr([v.a EXCEPT ![1] = SetPath(v.a[1], Tail(path), nv)])
  ELSE v

RECURSIVE ApplyMods(_, _)
ApplyMods(v, S) ==
  IF S = {} THEN v
  ELSE LET m == CHOOSE m \in S : TRUE
       IN  ApplyMods(SetPath(v, m.path, m.value), S \ {m})

(***************************************************************************)
(* The file system read by the loaders and validators                      *)
(***************************************************************************)
\* path.join('.', p) is p: every path below is relative to basePath '.'
resumePath == "src/data/resume.yaml"
testimonialsPath == "src/data/testimonials.yaml"
repositoriesPath == "src/data/repositories.yaml"
publicationsPath == "src/data/publications.yaml"
productsDir == "src/data/products"

\* names a products directory may hold, in readdir order
EntryNames == <<".draft.mdx", ".gitkeep", ".md", "Guide.MD", "intro.md", "notes.txt">>

\* path.join(dir, name)
PathJoin(dir, name) == dir \o "/" \o name

StartsWith(s, prefix) == Len(s) >= Len(prefix) /\ SubSeq(s, 1, Len(prefix)) = prefix

\* the working directory of the process, and path.resolve
Cwd == "/site"
resolve(p) ==
  IF StartsWith(p, "/") THEN p ELSE IF p = "." THEN Cwd ELSE PathJoin(Cwd, p)

\* the i-th character of a string, and the last position of a character
Ch(s, i) == SubSeq(s, i, i)

LastIndexOf(s, c) ==
  LET I == {i \in 1..Len(s) : Ch(s, i) = c}
  IN  IF I = {} THEN 0 ELSE CHOOSE i \in I : \A j \in I : j <= i

UpperCase == "ABCDEFGHIJKLMNOPQRSTUVWXYZ"
LowerCase == "abcdefghijklmnopqrstuvwxyz"

\* String.prototype.toLowerCase on ASCII text
RECURSIVE toLowerCase(_)
toLowerCase(s) ==
  IF s = "" THEN ""
  ELSE LET c == Ch(s, 1)
           I == {i \in 1..Len(UpperCase) : Ch(UpperCase, i) = c}
       IN  (IF I = {} THEN c ELSE Ch(LowerCase, CHOOSE i \in I : TRUE))
           \o toLowerCase(SubSeq(s, 2, Len(s)))

\* path.basename(file): what follows the last '/'
BaseName(file) == SubSeq(file, LastIndexOf(file, "/") + 1, Len(file))

\* path.extname(name) of a file name: from its last '.' on, and '' when
\* there is no '.', when the only '.' is the first character, or for '..'
extname(name) ==
  LET dot == LastIndexOf(name, ".")
  IN  IF dot <= 1 \/ name = ".." THEN "" ELSE SubSeq(name, dot, Len(name))

\* path.extname(entry.name).toLowerCase()
ExtName(name) == toLowerCase(extname(name))

YamlPaths == <<resumePath, testimonialsPath, repositoriesPath, publicationsPath>>
EntryPaths == [i \in 1..Len(EntryNames) |-> PathJoin(productsDir, EntryNames[i])]
AllPaths == Range(YamlPaths) \cup {productsDir} \cup Range(EntryPaths)

\* nodes of the file system
Absent == [type |-> "absent"]
Dir(readable) == [type |-> "dir", readable |-> readable]
File(readable, content) == [type |-> "file", readable |-> readable, content |-> content]
\* a file together with the modification time its metadata carry
StampedFile(readable, content, mtime) ==
  [type |-> "file", readable |-> readable, content |-> content, mtime |-> mtime]
\* a path below a directory that denies search permission: every access to
\* it fails with EACCES
Inaccessible == [type |-> "inaccessible"]

\* file contents, described by what the YAML parser makes of them:
\* a YAML document that parses to `value`, a text on which yaml.load throws
\* `message`, and Markdown with or without a leading ----delimited block
\* (`planted` notes which modifications of the valid sample record the text
\* carries; no operation reads it)
Parsed(value) == [ok |-> TRUE, value |-> value]
ParseFailure(message) == [ok |-> FALSE, message |-> message]
YamlText(parse, planted) == [format |-> "yaml", parse |-> parse, planted |-> planted]
MarkdownText(found, parse, planted) ==
  [format |-> "markdown", found |-> found, parse |-> parse, planted |-> planted]

\* the message js-yaml gives for the malformed text of the tests,
\* `invalid: yaml: content: [unclosed`: reason, position and snippet
YamlException ==
  "bad indentation of a mapping entry (1:14)\n\n"
    \o " 1 | invalid: yaml: content: [unclosed\n------------------^"

\* the directory a path lies in
Parent(p) == SubSeq(p, 1, LastIndexOf(p, "/") - 1)

\* a path that leads through a regular file: the system call fails with ENOTDIR
BelowFile(files, path) ==
  /\ files[path].type = "absent"
  /\ Parent(path) \in DOMAIN files
  /\ files[Parent(path)].type = "file"

\* fs.existsSync: false as well when the path cannot be reached
existsSync(files, path) == files[path].type \notin {"absent", "inaccessible"}

\* fs.readFileSync(path, 'utf-8'): the content, or the error thrown
readFileSync(files, path) ==
  LET node == files[path]
  IN  CASE BelowFile(files, path) ->
             [ok |-> FALSE, message |-> "ENOTDIR: not a directory, open '" \o path \o "'"]
        [] node.type = "absent" ->
             [ok |-> FALSE,
              message |-> "ENOENT: no such file or directory, open '" \o path \o "'"]
        [] node.type = "inaccessible" \/ (node.type = "dir" /\ ~node.readable) ->
             [ok |-> FALSE, message |-> "EACCES: permission denied, open '" \o path \o "'"]
        [] node.type = "dir" ->
             [ok |-> FALSE, message |-> "EISDIR: illegal operation on a directory, read"]
        [] node.type = "file" /\ ~node.readable ->
             [ok |-> FALSE, message |-> "EACCES: permission denied, open '" \o path \o "'"]
        [] OTHER -> [ok |-> TRUE, content |-> node.content]

\* fs.readdirSync(dir, {withFileTypes: true}): the entries, or the error thrown
readdirSync(files, dir) ==
  LET node == files[dir]
  IN  CASE BelowFile(files, dir) ->
             [ok |-> FALSE, message |-> "ENOTDIR: not a directory, scandir '" \o dir \o "'"]
        [] node.type = "absent" ->
             [ok |-> FALSE,
              message |-> "ENOENT: no such file or directory, scandir '" \o dir \o "'"]
        [] node.type = "file" ->
             [ok |-> FALSE, message |-> "ENOTDIR: not a directory, scandir '" \o dir \o "'"]
        [] node.type = "inaccessible" \/ (node.type = "dir" /\ ~node.readable) ->
             [ok |-> FALSE, message |-> "EACCES: permission denied, scandir '" \o dir \o "'"]
        [] OTHER ->
             [ok |-> TRUE,
              entries |-> SelectSeq(EntryNames,
                            LAMBDA n : files[PathJoin(dir, n)].type # "absent")]

\* yaml.load(content)
yamlLoad(content) == content.parse

\* fs.statSync(path): the metadata, or the error thrown
statSync(files, path) ==
  LET node == files[path]
  IN  CASE BelowFile(files, path) ->
             [ok |-> FALSE, message |-> "ENOTDIR: not a directory, stat '" \o path \o "'"]
        [] node.type = "absent" ->
             [ok |-> FALSE,
              message |-> "ENOENT: no such file or directory, stat '" \o path \o "'"]
        [] node.type = "inaccessible" ->
             [ok |-> FALSE, message |-> "EACCES: permission denied, stat '" \o path \o "'"]
        [] OTHER -> [ok |-> TRUE, mtimeMs |-> node.mtime]

(***************************************************************************)
(* Content Validator                                                       *)
(***************************************************************************)
\* err.path.join('.')
RECURSIVE JoinPath(_)
JoinPath(path) ==
  IF path = <<>> THEN ""
  ELSE IF Len(path) = 1 THEN path[1]
  ELSE path[1] \o "." \o JoinPath(Tail(path))

FormatIssue(issue) ==
  IF JoinPath(issue.path) # "" THEN JoinPath(issue.path) \o ": " \o issue.message
  ELSE issue.message

formatZodErrorsFirstOnly(issues) ==
  IF issues = <<>> THEN <<>> ELSE <<FormatIssue(issues[1])>>

formatZodErrors(issues) == [i \in 1..Len(issues) |-> FormatIssue(issues[i])]

Invalid(file, errors) == [valid |-> FALSE, file |-> file, errors |-> errors]
Valid(file) == [valid |-> TRUE, file |-> file]

\* JavaScript truthiness of a parsed value
Falsy(v) ==
  \/ v.t \in {"undefined", "null"}
  \/ v.t = "boolean" /\ ~v.b
  \/ v.t = "number" /\ v.n = 0
  \/ v.t = "string" /\ v.s = ""

\* a validator that accepts every file that can be read and parsed
validateYamlFileParseOnly(files, filePath, schema) ==
  IF ~existsSync(files, filePath)
    THEN Invalid(filePath, <<"File not found: " \o filePath>>)
  ELSE LET read == readFileSync(files, filePath)
       IN  IF ~read.ok THEN Invalid(filePath, <<"Parse error: " \o read.message>>)
           ELSE IF ~yamlLoad(read.content).ok
             THEN Invalid(filePath, <<"Parse error: " \o yamlLoad(read.content).message>>)
           ELSE Valid(filePath)

validateYamlFile(files, filePath, schema) ==
  IF ~existsSync(files, filePath)
    THEN Invalid(filePath, <<"File not found: " \o filePath>>)
  ELSE LET read == readFileSync(files, filePath)
       IN  IF ~read.ok THEN Invalid(filePath, <<"Parse error: " \o read.message>>)
           ELSE LET parsed == yamlLoad(read.content)
                IN  IF ~parsed.ok
                      THEN Invalid(filePath, <<"Parse error: " \o parsed.message>>)
                    ELSE LET validation == safeParse(schema, parsed.value)
                         IN  IF validation.success THEN Valid(filePath)
                             ELSE Invalid(filePath, formatZodErrors(validation.issues))

\* the parsed frontmatter, or null when there is no block or its YAML is bad
extractFrontmatter(content) ==
  IF ~content.found THEN Null
  ELSE IF ~content.parse.ok THEN Null
  ELSE content.parse.value

\* validation that lets the YAML error of a malformed block reach the catch
validateMarkdownFileParseError(files, filePath, schema) ==
  IF ~existsSync(files, filePath)
    THEN Invalid(filePath, <<"File not found: " \o filePath>>)
  ELSE LET read == readFileSync(files, filePath)
       IN  IF ~read.ok THEN Invalid(filePath, <<"Parse error: " \o read.message>>)
           ELSE IF read.content.found /\ ~read.content.parse.ok
             THEN Invalid(filePath, <<"Parse error: " \o read.content.parse.message>>)
           ELSE LET frontmatter == extractFrontmatter(read.content)
                IN  IF Falsy(frontmatter)
                      THEN Invalid(filePath, <<"No frontmatter found in markdown file">>)
                    ELSE LET validation == safeParse(schema, frontmatter)
                         IN  IF validation.success THEN Valid(filePath)
                             ELSE Invalid(filePath, formatZodErrors(validation.issues))

validateMarkdownFile(files, filePath, schema) ==
  IF ~existsSync(files, filePath)
    THEN Invalid(filePath, <<"File not found: " \o filePath>>)
  ELSE LET read == readFileSync(files, filePath)
       IN  IF ~read.ok THEN Invalid(filePath, <<"Parse error: " \o read.message>>)
           ELSE LET frontmatter == extractFrontmatter(read.content)
                IN  IF Falsy(frontmatter)
                      THEN Invalid(filePath, <<"No frontmatter found in markdown file">>)
                    ELSE LET validation == safeParse(schema, frontmatter)
                         IN  IF validation.success THEN Valid(filePath)
                             ELSE Invalid(filePath, formatZodErrors(validation.issues))

Return(value) == [t |-> "return", value |-> value]
Throw(message) == [t |-> "throw", message |-> message]

\* a getFileModifiedTime that lets the error of statSync escape
getFileModifiedTimeUnguarded(files, filePath) ==
  LET stats == statSync(files, filePath)
  IN  IF stats.ok THEN Return([t |-> "number", n |-> stats.mtimeMs])
      ELSE Throw(stats.message)

getFileModifiedTime(files, filePath) ==
  LET stats == statSync(files, filePath)
  IN  IF stats.ok THEN Return([t |-> "number", n |-> stats.mtimeMs])
      ELSE Return(Null)

\* the listing with extensions compared as they are spelled
getFilesInDirectoryCaseSensitive(files, dir, extensions) ==
  IF ~existsSync(files, dir) THEN Return(<<>>)
  ELSE LET listing == readdirSync(files, dir)
       IN  IF ~listing.ok THEN Throw(listing.message)
           ELSE Return(LET names == SelectSeq(listing.entries,
                              LAMBDA n : /\ files[PathJoin(dir, n)].type = "file"
                                         /\ extname(n) \in extensions)
                       IN  [i \in 1..Len(names) |-> PathJoin(dir, names[i])])

\* the files directly in `dir` whose extension is listed; readdirSync's
\* error is not caught
getFilesInDirectory(files, dir, extensions) ==
  IF ~existsSync(files, dir) THEN Return(<<>>)
  ELSE LET listing == readdirSync(files, dir)
       IN  IF ~listing.ok THEN Throw(listing.message)
           ELSE Return(LET names == SelectSeq(listing.entries,
                              LAMBDA n : /\ files[PathJoin(dir, n)].type = "file"
                                         /\ ExtName(n) \in extensions)
                       IN  [i \in 1..Len(names) |-> PathJoin(dir, names[i])])

\* the schema validateAllContent and the typed loaders use for a data file
FileSchema(path) ==
  CASE path = resumePath -> resumeFileSchema
    [] path = testimonialsPath -> testimonialsFileSchema
    [] path = repositoriesPath -> repositoriesFileSchema
    [] path = publicationsPath -> publicationsFileSchema

\* results of all the YAML data files i.., the missing ones failing
RECURSIVE YamlResultsMissingFails(_, _)
YamlResultsMissingFails(files, i) ==
  IF i > Len(YamlPaths) THEN <<>>
  ELSE <<validateYamlFile(files, YamlPaths[i], FileSchema(YamlPaths[i]))>>
       \o YamlResultsMissingFails(files, i + 1)

\* results of the YAML data files i.. that exist
RECURSIVE YamlResults(_, _)
YamlResults(files, i) ==
  IF i > Len(YamlPaths) THEN <<>>
  ELSE (IF existsSync(files, YamlPaths[i])
          THEN <<validateYamlFile(files, YamlPaths[i], FileSchema(YamlPaths[i]))>>
          ELSE <<>>)
       \o YamlResults(files, i + 1)

RECURSIVE ProductResults(_, _)
ProductResults(files, productFiles) ==
  IF productFiles = <<>> THEN <<>>
  ELSE (IF BaseName(Head(productFiles)) = ".gitkeep" THEN <<>>
        ELSE <<validateMarkdownFile(files, Head(productFiles), productSchema)>>)
       \o ProductResults(files, Tail(productFiles))

CountValid(results) == Cardinality({i \in 1..Len(results) : results[i].valid})
CountInvalid(results) == Cardinality({i \in 1..Len(results) : ~results[i].valid})

\* a summary whose success flag looks at the first result only
ReportFirstOnly(results, now) ==
  [success |-> (results = <<>> \/ results[1].valid),
   timestamp |-> now,
   results |-> results,
   summary |-> [total |-> Len(results), valid |-> CountValid(results),
                invalid |-> CountInvalid(results)]]

Report(results, now) ==
  [success |-> (CountInvalid(results) = 0),
   timestamp |-> now,
   results |-> results,
   summary |-> [total |-> Len(results), valid |-> CountValid(results),
                invalid |-> CountInvalid(results)]]

\* validateAllContent('.') at time `now`: the report, or the exception that
\* escapes from getFilesInDirectory
validateAllContent(files, now) ==
  LET productFiles == getFilesInDirectory(files, productsDir, {".md", ".mdx"})
  IN  IF productFiles.t = "throw" THEN productFiles
      ELSE Return(Report(YamlResults(files, 1)
                           \o ProductResults(files, productFiles.value), now))

(***************************************************************************)
(* Data Loader                                                             *)
(***************************************************************************)
\* ZodError.message is JSON.stringify(issues, .., 2): every issue on lines
\* of its own, a key per line, indented by two spaces per level
Digits == "0123456789"
IsIndex(element) ==
  element # "" /\ \A i \in 1..Len(element) : \E d \in 1..Len(Digits) :
                    Ch(element, i) = Ch(Digits, d)

\* the elements of a path, one per line: a key quoted, an index bare
RECURSIVE JsonPath(_)
JsonPath(path) ==
  LET element == "      " \o (IF IsIndex(path[1]) THEN path[1] ELSE Quoted(path[1]))
  IN  IF Len(path) = 1 THEN element ELSE element \o ",\n" \o JsonPath(Tail(path))

JsonMembers(issue) ==
  [i \in 1..Len(issue.data) |->
     IF issue.data[i] = MessageKey THEN Member("message", Quoted(issue.message))
     ELSE issue.data[i]]
    \o <<Member("path", IF issue.path = <<>> THEN "[]"
                        ELSE "[\n" \o JsonPath(issue.path) \o "\n    ]")>>
    \o (IF \E i \in 1..Len(issue.data) : issue.data[i] = MessageKey THEN <<>>
        ELSE <<Member("message", Quoted(issue.message))>>)

RECURSIVE JsonLines(_)
JsonLines(members) ==
  LET line == "    " \o Quoted(members[1].key) \o ": " \o members[1].json
  IN  IF Len(members) = 1 THEN line ELSE line \o ",\n" \o JsonLines(Tail(members))

JsonIssue(issue) == "  {\n" \o JsonLines(JsonMembers(issue)) \o "\n  }"

RECURSIVE JsonIssues(_)
JsonIssues(issues) ==
  IF Len(issues) = 1 THEN JsonIssue(issues[1])
  ELSE JsonIssue(issues[1]) \o ",\n" \o JsonIssues(Tail(issues))

ZodErrorMessage(issues) ==
  IF issues = <<>> THEN "[]" ELSE "[\n" \o JsonIssues(issues) \o "\n]"

\* a loader that reports every failure after the existence test the same way
loadYamlFileOneKind(files, filePath, schema) ==
  IF ~existsSync(files, filePath)
    THEN [success |-> FALSE, error |-> "File not found: " \o filePath]
  ELSE LET read == readFileSync(files, filePath)
       IN  IF ~read.ok \/ ~yamlLoad(read.content).ok
             THEN [success |-> FALSE, error |-> "Failed to load file: " \o filePath]
           ELSE LET validationResult == safeParse(schema, yamlLoad(read.content).value)
                IN  IF ~validationResult.success
                      THEN [success |-> FALSE, error |-> "Failed to load file: " \o filePath]
                    ELSE [success |-> TRUE, data |-> validationResult.data]

\* the tree under the absolute names of its paths
Resolved(files) ==
  [q \in {resolve(p) : p \in DOMAIN files} |->
     files[CHOOSE p \in DOMAIN files : resolve(p) = q]]

\* the file is tested and read under path.resolve(filePath), and named in
\* `File not found` as it was given
loadYamlFile(files, filePath, schema) ==
  IF ~existsSync(Resolved(files), resolve(filePath))
    THEN [success |-> FALSE, error |-> "File not found: " \o filePath]
  ELSE LET read == readFileSync(Resolved(files), resolve(filePath))
       IN  IF ~read.ok
             THEN [success |-> FALSE, error |-> "Failed to load file: " \o read.message]
           ELSE LET parsedYaml == yamlLoad(read.content)
                IN  IF ~parsedYaml.ok
                      THEN [success |-> FALSE,
                            error |-> "Failed to load file: " \o parsedYaml.message]
                    ELSE LET validationResult == safeParse(schema, parsedYaml.value)
                         IN  IF ~validationResult.success
                               THEN [success |-> FALSE,
                                     error |-> "Schema validation failed: "
                                                 \o ZodErrorMessage(validationResult.issues)]
                               ELSE [success |-> TRUE, data |-> validationResult.data]

(***************************************************************************)
(* The astro:build:start hook of the content-validation integration        *)
(***************************************************************************)
\* what console.error prints for the invalid results
RECURSIVE ErrorLines(_)
ErrorLines(results) ==
  IF results = <<>> THEN <<>>
  ELSE LET result == Head(results)
       IN  (IF ~result.valid /\ "errors" \in DOMAIN result
              THEN <<"\n  File: " \o result.file>>
                   \o [i \in 1..Len(result.errors) |-> "    - " \o result.errors[i]]
              ELSE <<>>)
           \o ErrorLines(Tail(results))

\* the banner begins with a line break and the cross mark U+274C, written
\* here by its code point
FailureBanner == "\n<U+274C> Content validation failed:"
AbortMessage == "Content validation failed. Please fix the errors above."

\* the hook's effect for the outcome `r` of validateAllContent:
\* [printed, outcome] where outcome is what the hook returns or throws
HookEffect(r) ==
  IF r.t = "throw" THEN [printed |-> <<>>, outcome |-> r]
  ELSE IF ~r.value.success
    THEN [printed |-> <<FailureBanner>> \o ErrorLines(r.value.results),
          outcome |-> Throw(AbortMessage)]
  ELSE [printed |-> <<>>, outcome |-> Return(Undefined)]

(***************************************************************************)
(* Specification of schema.safeParse on the sample records                 *)
(***************************************************************************)
InitSchema ==
  /\ PureInit
  /\ \E name \in SchemaNames : \E S \in ModSets(name) :
       call = [op |-> "safeParse", schema |-> name, mods |-> S,
               value |-> ApplyMods(ValidRecord(name), S)]

SafeParse ==
  /\ call.op = "safeParse"
  /\ ret = Pending
  /\ ret' = safeParse(SchemaNamed(call.schema), call.value)
  /\ UNCHANGED <<call, fs, pc, console>>

NextSchema == SafeParse

SpecSchema == InitSchema /\ [][NextSchema]_vars

\* the entries the planted modifications call for
ExpectedErrors(S) == UNION {Range(m.errors) : m \in S}
RECURSIVE ExpectedCount(_)
ExpectedCount(S) ==
  IF S = {} THEN 0
  ELSE LET m == CHOOSE m \in S : TRUE IN Len(m.errors) + ExpectedCount(S \ {m})

\* the violations C7 lists
ListedKinds == {"empty", "emptyArray", "range", "missing"}

\* C7: for each of the five schemas a record satisfying every constraint
\* validates, and a record that violates exactly one required-field or range
\* constraint fails with an issue reported at the violated field.
C7_ValidPassOneViolationFails ==
  (call.op = "safeParse" /\ ret # Pending) =>
    LET bad == {m \in call.mods : m.kind # "valid"}
    IN  /\ (bad = {}) => (ret.success /\ ret.issues = <<>>)
        /\ \A m \in bad :
             (bad = {m} /\ m.kind \in ListedKinds) =>
               /\ ~ret.success
               /\ \E i \in 1..Len(ret.issues) :
                    /\ ret.issues[i].path = m.path
                    /\ FormatIssue(ret.issues[i]) \in Range(m.errors)

\* a publication whose only defect is a year below 1900 has been rejected
C7_OneViolationCase ==
  /\ call.op = "safeParse" /\ ret # Pending
  /\ call.schema = "publication"
  /\ \E m \in call.mods : m.path = <<"year">> /\ m.value = Num(18990)
  /\ \A m \in call.mods : m.path # <<"year">> => m.kind = "valid"
  /\ Cardinality(call.mods) = 2
  /\ ~ret.success

IsIntegerInRange(v, lo, hi) ==
  v.t = "number" /\ v.n % 10 = 0 /\ 10 * lo <= v.n /\ v.n <= 10 * hi

\* C8: with all other fields valid, the testimonial schema accepts a record
\* if and only if its rating is an integer with 1 <= rating <= 5.
C8_RatingIntegerOneToFive ==
  (/\ call.op = "safeParse" /\ ret # Pending /\ call.schema = "testimonial"
   /\ \A m \in call.mods : m.path # <<"rating">> => m.kind = "valid") =>
    (ret.success <=> IsIntegerInRange(Field(call.value.f, "rating"), 1, 5))

\* the statement the schema does satisfy: the rating is any number in [1,5]
C8_RatingNumberOneToFive ==
  (/\ call.op = "safeParse" /\ ret # Pending /\ call.schema = "testimonial"
   /\ \A m \in call.mods : m.path # <<"rating">> => m.kind = "valid") =>
    LET r == Field(call.value.f, "rating")
    IN  ret.success <=> (r.t = "number" /\ 10 <= r.n /\ r.n <= 50)

\* a testimonial rated 4.5, otherwise valid, has been accepted
C8_FractionalRatingAccepted ==
  /\ call.op = "safeParse" /\ ret # Pending /\ call.schema = "testimonial"
  /\ Field(call.value.f, "rating") = Num(45)
  /\ ret.success

\* safeParse reports exactly the entries the planted violations call for
SchemaIssuesComplete ==
  (call.op = "safeParse" /\ ret # Pending) =>
    /\ Range(formatZodErrors(ret.issues)) = ExpectedErrors(call.mods)
    /\ Len(ret.issues) = ExpectedCount(call.mods)

(***************************************************************************)
(* File-system snapshots                                                   *)
(***************************************************************************)
\* the record schema behind a data file, and where its record sits in the file
RecordSchemaName(path) ==
  CASE path = resumePath -> "resume"
    [] path = testimonialsPath -> "testimonial"
    [] path = repositoriesPath -> "repository"
    [] path = publicationsPath -> "publication"
    [] OTHER -> "product"

FileDoc(path, rec) ==
  CASE path = testimonialsPath -> Obj([testimonials |-> Arr(<<rec>>)])
    [] path = repositoriesPath -> Obj([repositories |-> Arr(<<rec>>)])
    [] path = publicationsPath -> Obj([publications |-> Arr(<<rec>>)])
    [] OTHER -> rec

ErrorPrefix(path) ==
  CASE path = testimonialsPath -> "testimonials.0."
    [] path = repositoriesPath -> "repositories.0."
    [] path = publicationsPath -> "publications.0."
    [] OTHER -> ""

IsEntryPath(path) == path \in Range(EntryPaths)

\* the text of a content file at `path` holding the sample record with the
\* modifications S: a YAML document, or Markdown with that frontmatter
DocText(path, S) ==
  LET rec == ApplyMods(ValidRecord(RecordSchemaName(path)), S)
  IN  IF IsEntryPath(path) THEN MarkdownText(TRUE, Parsed(rec), S)
      ELSE YamlText(Parsed(FileDoc(path, rec)), S)

MalformedText(path) ==
  IF IsEntryPath(path) THEN MarkdownText(TRUE, ParseFailure(YamlException), {})
  ELSE YamlText(ParseFailure(YamlException), {})

\* an empty YAML file, or Markdown without a frontmatter block
BlankText(path) ==
  IF IsEntryPath(path) THEN MarkdownText(FALSE, Parsed(Undefined), {})
  ELSE YamlText(Parsed(Undefined), {})

\* every required string of the sample record emptied
AllEmpty(path) == {m \in Mods(RecordSchemaName(path)) : m.kind = "empty"}

\* what may sit at a path when one file is looked at closely ...
DetailedNodes(path) ==
  {Dir(TRUE), File(FALSE, BlankText(path)), File(TRUE, MalformedText(path)),
   File(TRUE, BlankText(path))}
  \cup {File(TRUE, DocText(path, S)) : S \in ModSets(RecordSchemaName(path))}

\* ... and when the whole content tree is looked at
CoarseNodes(path) ==
  {Dir(TRUE), File(FALSE, BlankText(path)), File(TRUE, MalformedText(path)),
   File(TRUE, BlankText(path)), File(TRUE, DocText(path, {})),
   File(TRUE, DocText(path, AllEmpty(path)))}

ContentPaths == Range(YamlPaths) \cup Range(EntryPaths)
EmptyFs == [p \in AllPaths |-> Absent]

\* how many content files a snapshot of the whole tree holds at most
MaxPresent == 2

ProductsNodes == {Dir(TRUE), Dir(FALSE), File(TRUE, BlankText(resumePath))}

Present(files) == {p \in ContentPaths : files[p].type # "absent"}

\* clock readings for new Date().toISOString()
Timestamps == {"2026-01-01T00:00:00.000Z", "2026-01-01T00:00:01.000Z"}

Idle == [op |-> "none"]

(***************************************************************************)
(* Operations on a snapshot                                                *)
(***************************************************************************)
\* the content author's side: a content file (or something else of that
\* name) appears in the tree; product entries need the products directory
WriteContent(path, node) ==
  /\ call = Idle /\ pc = "idle"
  /\ fs[path].type = "absent"
  /\ Cardinality(Present(fs)) < MaxPresent
  /\ IsEntryPath(path) => (fs[productsDir].type = "dir")
  /\ fs' = [fs EXCEPT ![path] = node]
  /\ UNCHANGED <<call, ret, pc, console>>

\* src/data/products appears: a directory, an unlistable one, or a plain file
MakeProducts(node) ==
  /\ call = Idle /\ pc = "idle"
  /\ fs[productsDir].type = "absent"
  /\ fs' = [fs EXCEPT ![productsDir] = node]
  /\ UNCHANGED <<call, ret, pc, console>>

\* one content file, looked at closely, in an otherwise empty tree
PlaceFile(path, node) ==
  /\ call = Idle /\ pc = "idle"
  /\ fs = EmptyFs
  /\ fs' = [EmptyFs EXCEPT ![path] = node,
                           ![productsDir] = IF IsEntryPath(path) THEN Dir(TRUE) ELSE Absent]
  /\ UNCHANGED <<call, ret, pc, console>>

LoadYamlFile(path) ==
  /\ call = Idle /\ pc = "idle"
  /\ call' = [op |-> "loadYamlFile", path |-> path]
  /\ ret' = Return(loadYamlFile(fs, path, FileSchema(path)))
  /\ UNCHANGED <<fs, pc, console>>

ValidateYamlFile(path) ==
  /\ call = Idle /\ pc = "idle"
  /\ call' = [op |-> "validateYamlFile", path |-> path]
  /\ ret' = Return(validateYamlFile(fs, path, FileSchema(path)))
  /\ UNCHANGED <<fs, pc, console>>

ValidateMarkdownFile(path) ==
  /\ call = Idle /\ pc = "idle"
  /\ call' = [op |-> "validateMarkdownFile", path |-> path]
  /\ ret' = Return(validateMarkdownFile(fs, path, productSchema))
  /\ UNCHANGED <<fs, pc, console>>

ValidateAllContent(now) ==
  /\ call = Idle /\ pc = "idle"
  /\ call' = [op |-> "validateAllContent", now |-> now]
  /\ ret' = validateAllContent(fs, now)
  /\ UNCHANGED <<fs, pc, console>>

\* 'astro:build:start': validate, print the errors and throw, or let the
\* build go on
BuildStart(now) ==
  /\ call = Idle /\ pc = "idle"
  /\ LET effect == HookEffect(validateAllContent(fs, now))
     IN  /\ call' = [op |-> "astro:build:start", now |-> now]
         /\ console' = console \o effect.printed
         /\ ret' = effect.outcome
         /\ pc' = IF effect.outcome.t = "throw" THEN "aborted" ELSE "building"
  /\ UNCHANGED fs

\* the later build steps, run once the hook has returned
BuildFinish ==
  /\ pc = "building"
  /\ pc' = "done"
  /\ UNCHANGED <<call, ret, fs, console>>

InitFiles ==
  /\ fs = EmptyFs
  /\ call = Idle /\ ret = Pending /\ pc = "idle" /\ console = <<>>

NextFiles ==
  \/ \E path \in ContentPaths : \E node \in DetailedNodes(path) : PlaceFile(path, node)
  \/ \E path \in Range(YamlPaths) : LoadYamlFile(path)
  \/ \E path \in Range(YamlPaths) : ValidateYamlFile(path)
  \/ \E path \in Range(EntryPaths) : ValidateMarkdownFile(path)

SpecFiles == InitFiles /\ [][NextFiles]_vars

Init ==
  /\ fs = EmptyFs
  /\ call = Idle /\ ret = Pending /\ pc = "idle" /\ console = <<>>

Next ==
  \/ \E path \in ContentPaths : \E node \in CoarseNodes(path) : WriteContent(path, node)
  \/ \E node \in ProductsNodes : MakeProducts(node)
  \/ \E path \in Range(YamlPaths) : LoadYamlFile(path)
  \/ \E path \in Range(YamlPaths) : ValidateYamlFile(path)
  \/ \E path \in Range(EntryPaths) : ValidateMarkdownFile(path)
  \/ \E now \in Timestamps : ValidateAllContent(now)
  \/ \E now \in Timestamps : BuildStart(now)
  \/ BuildFinish

Spec == Init /\ [][Next]_vars

(***************************************************************************)
(* Properties of validateAllContent and of the build hook                  *)
(***************************************************************************)
\* the files the results of a report are about
ResultFiles(report) == {report.results[i].file : i \in 1..Len(report.results)}

\* C12: in every report validateAllContent returns, a known YAML file that
\* is absent has no entry in results, an absent products directory
\* contributes no entry, summary.invalid counts only entries of existing
\* files, and a tree with none of the content yields success with total 0.
C12_MissingContentSkipped ==
  (call.op = "validateAllContent" /\ ret.t = "return") =>
    LET report == ret.value
    IN  /\ \A p \in Range(YamlPaths) :
              fs[p].type = "absent" => p \notin ResultFiles(report)
        /\ fs[productsDir].type = "absent" =>
              ResultFiles(report) \subseteq Range(YamlPaths)
        /\ report.summary.invalid =
              Cardinality({i \in 1..Len(report.results) :
                             /\ ~report.results[i].valid
                             /\ fs[report.results[i].file].type # "absent"})
        /\ (\A p \in AllPaths : fs[p].type = "absent") =>
              (report.success /\ report.summary.total = 0 /\ report.results = <<>>)

\* how many entries of the report are about the products entry `name`, and
\* whether each of them is the product-schema validation of that file
EntriesFor(report, name) ==
  {i \in 1..Len(report.results) : report.results[i].file = PathJoin(productsDir, name)}

IsProductValidation(report, name) ==
  \A i \in EntriesFor(report, name) :
     report.results[i] = validateMarkdownFile(fs, PathJoin(productsDir, name), productSchema)

EndsWith(s, suffix) ==
  Len(s) >= Len(suffix) /\ SubSeq(s, Len(s) - Len(suffix) + 1, Len(s)) = suffix

\* the name ends in .md or .mdx, in any letter case
IsMarkdownName(name) ==
  EndsWith(toLowerCase(name), ".md") \/ EndsWith(toLowerCase(name), ".mdx")

\* ... and something precedes that extension
HasMarkdownExtension(name) ==
  \/ EndsWith(toLowerCase(name), ".md") /\ Len(name) > 3
  \/ EndsWith(toLowerCase(name), ".mdx") /\ Len(name) > 4

IsRegularFile(name) == fs[PathJoin(productsDir, name)].type = "file"

\* C13 as claimed: in every report, results holds exactly one
\* product-schema entry for each .md/.mdx file of src/data/products whose
\* name does not begin with a dot, and no entry for a name beginning with a
\* dot.
C13_DotfilesSkipped ==
  (call.op = "validateAllContent" /\ ret.t = "return") =>
    \A name \in Range(EntryNames) :
       /\ Cardinality(EntriesFor(ret.value, name)) =
            IF IsRegularFile(name) /\ IsMarkdownName(name) /\ Ch(name, 1) # "."
              THEN 1 ELSE 0
       /\ IsProductValidation(ret.value, name)

\* C13 as the code has it: in every report, results holds exactly one
\* product-schema entry for each regular file directly in src/data/products
\* whose name ends, in any letter case, in .md or .mdx after a non-empty
\* stem, unless the file is named .gitkeep -- dotfiles such as .draft.mdx
\* included -- and no entry for any other directory entry.
C13_OnlyGitkeepSkipped ==
  (call.op = "validateAllContent" /\ ret.t = "return") =>
    \A name \in Range(EntryNames) :
       /\ Cardinality(EntriesFor(ret.value, name)) =
            IF IsRegularFile(name) /\ HasMarkdownExtension(name) /\ name # ".gitkeep"
              THEN 1 ELSE 0
       /\ IsProductValidation(ret.value, name)

\* the dotfile .draft.mdx got its entry, next to the one of Guide.MD
C13_DotfileValidated ==
  /\ call.op = "validateAllContent" /\ ret.t = "return"
  /\ IsRegularFile(".draft.mdx") /\ IsRegularFile("Guide.MD")
  /\ Cardinality(EntriesFor(ret.value, ".draft.mdx")) = 1
  /\ Cardinality(EntriesFor(ret.value, "Guide.MD")) = 1
  /\ ret.value.summary.total = 2

\* only testimonials.yaml exists, and the report holds just its entry
C12_OnlyOneFilePresent ==
  /\ call.op = "validateAllContent" /\ ret.t = "return"
  /\ \A p \in AllPaths : (fs[p].type # "absent") <=> (p = testimonialsPath)
  /\ ret.value.summary.total = 1
  /\ ret.value.summary.invalid = 0
  /\ ret.value.success

\* C2: in every report validateAllContent returns, summary.total is the
\* number of results, valid + invalid = total, summary.valid counts the
\* results with valid = true, and success holds iff summary.invalid = 0.
C2_ReportSummaryConsistent ==
  (call.op = "validateAllContent" /\ ret.t = "return") =>
    LET report == ret.value
        validIdx == {i \in 1..Len(report.results) : report.results[i].valid}
    IN  /\ report.summary.total = Len(report.results)
        /\ report.summary.valid + report.summary.invalid = report.summary.total
        /\ report.summary.valid = Cardinality(validIdx)
        /\ report.success <=> (report.summary.invalid = 0)
        /\ report.success <=> (validIdx = 1..Len(report.results))

\* a report with a valid first result and an invalid later one
C2_MixedReport ==
  /\ call.op = "validateAllContent" /\ ret.t = "return"
  /\ ret.value.summary.total = 2
  /\ ret.value.results[1].valid
  /\ ~ret.value.results[2].valid
  /\ ~ret.value.success

\* the content files validateAllContent looks at that exist and do not
\* validate: the data files, and the .md/.mdx files of the products directory
InvalidYaml(files) ==
  {p \in Range(YamlPaths) :
     existsSync(files, p) /\ ~validateYamlFile(files, p, FileSchema(p)).valid}
InvalidProducts(files) ==
  {p \in Range(EntryPaths) :
     /\ files[productsDir].type = "dir"
     /\ files[p].type = "file"
     /\ ExtName(BaseName(p)) \in {".md", ".mdx"}
     /\ ~validateMarkdownFile(files, p, productSchema).valid}
ErrorsOf(files, p) ==
  IF IsEntryPath(p) THEN validateMarkdownFile(files, p, productSchema).errors
  ELSE validateYamlFile(files, p, FileSchema(p)).errors

\* C3: the build-start hook aborts the build exactly when report.success is
\* false and lets it continue when it is true; the build never gets past
\* build start while a present content file is invalid; and before aborting
\* the hook has printed the errors of every invalid file.
C3_HookAbortsIffReportFails ==
  (call.op = "astro:build:start") =>
    LET r == validateAllContent(fs, call.now)
        invalid == InvalidYaml(fs) \cup InvalidProducts(fs)
    IN  /\ r.t = "return"
        /\ (pc = "aborted") <=> ~r.value.success
        /\ (pc \in {"building", "done"}) <=> r.value.success
        /\ (pc \in {"building", "done"}) => invalid = {}
        /\ (pc = "aborted") =>
             \A p \in invalid :
               /\ ("\n  File: " \o p) \in Range(console)
               /\ \A e \in Range(ErrorsOf(fs, p)) : ("    - " \o e) \in Range(console)

\* what the hook does guarantee: when validateAllContent returns a report the
\* build is aborted iff the report failed, with every invalid file's errors
\* printed; and the build never proceeds with an invalid present file
C3_HookWhenReportReturned ==
  (call.op = "astro:build:start") =>
    LET r == validateAllContent(fs, call.now)
        invalid == InvalidYaml(fs) \cup InvalidProducts(fs)
    IN  /\ (pc \in {"building", "done"}) => (r.t = "return" /\ r.value.success /\ invalid = {})
        /\ (r.t = "return" /\ ~r.value.success) =>
             /\ pc = "aborted"
             /\ \A p \in invalid :
                  /\ ("\n  File: " \o p) \in Range(console)
                  /\ \A e \in Range(ErrorsOf(fs, p)) : ("    - " \o e) \in Range(console)

\* the build was aborted by the exception of validateAllContent while an
\* invalid data file went unreported
C3_AbortWithoutReport ==
  /\ call.op = "astro:build:start" /\ pc = "aborted"
  /\ ret.t = "throw" /\ ret.message # AbortMessage
  /\ InvalidYaml(fs) # {}
  /\ console = <<>>

\* C4: loadYamlFile (and the typed wrappers), validateYamlFile,
\* validateMarkdownFile and validateAllContent return a result and never
\* raise, whatever the file system holds; a failed file result carries its
\* error.
C4_NeverRaises ==
  (call.op \in {"loadYamlFile", "validateYamlFile", "validateMarkdownFile",
                "validateAllContent"}) =>
    /\ ret.t = "return"
    /\ (call.op = "loadYamlFile" /\ ~ret.value.success) => "error" \in DOMAIN ret.value
    /\ (call.op \in {"validateYamlFile", "validateMarkdownFile"} /\ ~ret.value.valid) =>
         "errors" \in DOMAIN ret.value

\* the single-file operations do keep the contract
C4_FileOperationsNeverRaise ==
  (call.op \in {"loadYamlFile", "validateYamlFile", "validateMarkdownFile"}) =>
    /\ ret.t = "return"
    /\ (call.op = "loadYamlFile" /\ ~ret.value.success) => "error" \in DOMAIN ret.value
    /\ (call.op \in {"validateYamlFile", "validateMarkdownFile"} /\ ~ret.value.valid) =>
         "errors" \in DOMAIN ret.value

\* validateAllContent raised because src/data/products is not a directory
C4_ProductsNotADirectory ==
  /\ call.op = "validateAllContent"
  /\ fs[productsDir].type = "file"
  /\ ret.t = "throw"

(***************************************************************************)
(* Properties of the single-file operations                                *)
(***************************************************************************)
\* the node the operation was pointed at
Target == fs[call.path]
IsDoc(node) == node.type = "file" /\ node.readable /\ node.content.parse.ok
TargetIssues == AllIssues(FileSchema(call.path), Target.content.parse.value)

RECURSIVE JoinWith(_, _)
JoinWith(strings, sep) ==
  IF strings = <<>> THEN ""
  ELSE IF Len(strings) = 1 THEN strings[1]
  ELSE strings[1] \o sep \o JoinWith(Tail(strings), sep)

Separators == {", ", "; ", ",", "\n"}

\* C5: loadYamlFile fails in three ways the caller can tell apart: a missing
\* file gives a "not found" error, unparsable content a "parse error" with
\* the parser's message, and a schema violation "schema validation failed"
\* with the joined list of fieldPath: message strings; success is false in
\* all three.
C5_ThreeFailureModes ==
  (call.op = "loadYamlFile") =>
    /\ (Target.type = "absent") =>
         (~ret.value.success /\ ret.value.error = "File not found: " \o call.path)
    /\ (Target.type = "file" /\ Target.readable /\ ~Target.content.parse.ok) =>
         /\ ~ret.value.success
         /\ \E label \in {"Parse error: ", "Failed to load file: "} :
              ret.value.error = label \o Target.content.parse.message
    /\ (IsDoc(Target) /\ TargetIssues # <<>>) =>
         /\ ~ret.value.success
         /\ \E sep \in Separators :
              ret.value.error =
                "Schema validation failed: " \o JoinWith(formatZodErrors(TargetIssues), sep)

\* C5 as the code has it: the three errors begin with three different
\* labels; a schema violation carries zod's error message, the JSON text of
\* the whole issue list, and a parse failure is labelled "Failed to load file".
C5_ThreeFailureModesJson ==
  (call.op = "loadYamlFile") =>
    /\ (Target.type = "absent") =>
         (~ret.value.success /\ ret.value.error = "File not found: " \o call.path)
    /\ (Target.type = "file" /\ Target.readable /\ ~Target.content.parse.ok) =>
         /\ ~ret.value.success
         /\ ret.value.error = "Failed to load file: " \o Target.content.parse.message
    /\ (IsDoc(Target) /\ TargetIssues # <<>>) =>
         /\ ~ret.value.success
         /\ ret.value.error = "Schema validation failed: " \o ZodErrorMessage(TargetIssues)
    /\ (IsDoc(Target) /\ TargetIssues = <<>>) => ret.value.success

\* a data file with two violated constraints was loaded
C5_SchemaFailureCase ==
  /\ call.op = "loadYamlFile"
  /\ IsDoc(Target) /\ Len(TargetIssues) = 2
  /\ ~ret.value.success

\* C6: when a content file parses but violates k >= 1 field constraints of
\* its schema, validateYamlFile / validateMarkdownFile return valid = false
\* and errors holds one `fieldPath: message` entry for each of the k
\* violations, not only the first.
C6_AllViolationsReported ==
  (/\ call.op \in {"validateYamlFile", "validateMarkdownFile"}
   /\ IsDoc(Target)
   /\ (call.op = "validateMarkdownFile" => Target.content.found)
   /\ ExpectedCount(Target.content.planted) >= 1) =>
    LET S == Target.content.planted
    IN  /\ ~ret.value.valid
        /\ Range(ret.value.errors) = {ErrorPrefix(call.path) \o e : e \in ExpectedErrors(S)}
        /\ Len(ret.value.errors) = ExpectedCount(S)

\* a content file with two violations whose two entries were both reported
C6_TwoViolationsCase ==
  /\ call.op \in {"validateYamlFile", "validateMarkdownFile"}
  /\ IsDoc(Target)
  /\ ExpectedCount(Target.content.planted) = 2
  /\ Len(ret.value.errors) = 2
  /\ ret.value.errors[1] # ret.value.errors[2]

\* the one error of a Markdown file without usable frontmatter
NoFrontmatter == <<"No frontmatter found in markdown file">>

IsReadableFile(node) == node.type = "file" /\ node.readable

\* C14: validateMarkdownFile on an existing, readable file whose content has
\* no frontmatter block, or whose block is malformed YAML, returns valid =
\* false with the single "no frontmatter found" error, never a parse error;
\* the schema is consulted (validation passes or reports field errors) only
\* when a block was extracted and parsed.
C14_NoFrontmatterError ==
  (call.op = "validateMarkdownFile" /\ ret # Pending /\ IsReadableFile(Target)) =>
    LET content == Target.content
        usable == content.found /\ content.parse.ok
    IN  /\ ~usable => ret.value = Invalid(call.path, NoFrontmatter)
        /\ (ret.value.valid \/ ret.value.errors # NoFrontmatter) => usable
        /\ ~ret.value.valid =>
              \A i \in 1..Len(ret.value.errors) :
                 SubSeq(ret.value.errors[i], 1, 12) # "Parse error:"

\* a product file whose frontmatter block is malformed YAML was reported as
\* having no frontmatter
C14_MalformedBlockCase ==
  /\ call.op = "validateMarkdownFile" /\ ret # Pending
  /\ IsReadableFile(Target)
  /\ Target.content.found /\ ~Target.content.parse.ok
  /\ ret.value = Invalid(call.path, NoFrontmatter)

\* how many lines a text has at most
MaxLines == 5

RECURSIVE Concat(_)
Concat(pieces) == IF pieces = <<>> THEN "" ELSE Head(pieces) \o Concat(Tail(pieces))

\* the lines of the texts: an empty line, a blank, the delimiter, entries
\* of a mapping, and, as the first or the last line of a text, a delimiter
\* followed by a blank and a line of four dashes
InnerLines == {"", " ", "---", "a: 1", "b: 2"}
EdgeLines == InnerLines \cup {"--- ", "----"}

MarkdownTexts(n) ==
  {JoinWith(q, "\n") : q \in {l \in SeqsUpTo(EdgeLines, n) :
                                 l # <<>> /\ \A i \in 2..(Len(l) - 1) : l[i] \in InnerLines}}

\* what lies between the occurrences of a character in a text
RECURSIVE SplitOn(_, _)
SplitOn(text, c) ==
  LET I == {i \in 1..Len(text) : Ch(text, i) = c}
  IN  IF I = {} THEN <<text>>
      ELSE LET i == CHOOSE x \in I : \A y \in I : x <= y
           IN  <<SubSeq(text, 1, i - 1)>> \o SplitOn(SubSeq(text, i + 1, Len(text)), c)

\* the lines of a text
Split(text) == SplitOn(text, "\n")

\* yaml.load on a block of these lines: a leading `---` line begins the
\* document, every `key: number` line is an entry of one mapping and a key
\* given twice is an error; a document without entries is null, and in
\* a text of nothing but blanks and at most a final line break there is
\* no document (undefined)
AllBlanks(text) == \A i \in 1..Len(text) : Ch(text, i) = " "

NoDocument(text) ==
  \/ AllBlanks(text)
  \/ /\ Ch(text, Len(text)) = "\n"
     /\ AllBlanks(SubSeq(text, 1, Len(text) - 1))

YamlEntry(line) ==
  LET colon == CHOOSE i \in 1..Len(line) : SubSeq(line, i, i + 1) = ": "
  IN  [key |-> SubSeq(line, 1, colon - 1),
       value |-> Num(10 * ((CHOOSE d \in 1..Len(Digits) :
                              Ch(Digits, d) = SubSeq(line, colon + 2, Len(line))) - 1))]

\* the lines of the input, which ends with a line break after the loader
\* has added one where it was missing
InputLines(text) ==
  LET parts == Split(text)
  IN  IF parts[Len(parts)] = "" THEN SubSeq(parts, 1, Len(parts) - 1) ELSE parts

\* the snippet of a mark at the first column of a line: up to three lines
\* before it, the line, the caret line and up to two lines after it, each
\* with its number padded to the width of the last number
RECURSIVE PadStart(_, _)
PadStart(text, width) ==
  IF Len(text) >= width THEN text ELSE PadStart(" " \o text, width)

RECURSIVE SnippetLines(_, _, _, _)
SnippetLines(lines, from, to, width) ==
  IF from > to THEN ""
  ELSE " " \o PadStart(ToString(from), width) \o " | " \o lines[from] \o "\n"
       \o SnippetLines(lines, from + 1, to, width)

RECURSIVE Dashes(_)
Dashes(n) == IF n = 0 THEN "" ELSE "-" \o Dashes(n - 1)

makeSnippet(lines, line) ==
  LET last == IF line + 2 < Len(lines) THEN line + 2 ELSE Len(lines)
      first == IF line > 3 THEN line - 3 ELSE 1
      width == Len(ToString(IF line + 1 < Len(lines) THEN line + 1 ELSE Len(lines)))
      shown == SnippetLines(lines, first, line, width) \o Dashes(width + 4) \o "^\n"
                 \o SnippetLines(lines, line + 1, last, width)
  IN  SubSeq(shown, 1, Len(shown) - 1)

\* the message of the YAMLException thrown at the first column of a line
YamlErrorMessage(reason, lines, line) ==
  reason \o " (" \o ToString(line) \o ":1)\n\n" \o makeSnippet(lines, line)

yamlLoadText(text) ==
  LET lines == InputLines(text)
      start == IF lines[1] = "---" THEN 2 ELSE 1
      entries == {i \in start..Len(lines) : ~AllBlanks(lines[i])}
      repeated == {i \in entries : \E j \in entries :
                     j < i /\ YamlEntry(lines[j]).key = YamlEntry(lines[i]).key}
      keys == {YamlEntry(lines[i]).key : i \in entries}
  IN  IF NoDocument(text) THEN Parsed(Undefined)
      ELSE IF entries = {} THEN Parsed(Null)
      ELSE IF repeated # {}
        THEN ParseFailure(YamlErrorMessage("duplicated mapping key", lines,
                            CHOOSE i \in repeated : \A j \in repeated : i <= j))
      ELSE Parsed(Obj([k \in keys |->
                         YamlEntry(lines[CHOOSE i \in entries :
                                           YamlEntry(lines[i]).key = k]).value]))

\* the characters \s matches
IsSpace(c) == c \in {" ", "\t", "\n", "\r"}

NoMatch == [matched |-> FALSE]
Match(block) == [matched |-> TRUE, block |-> block]

\* content.match(/^---\s*\n([\s\S]*?)\n---/): p is the newline that ends
\* `---\s*\n` (\s* is greedy and may run over line ends, so the last such
\* newline that still leaves a closing `\n---` after it), q the first
\* closing `\n---` from p + 1 on (the group is lazy); the group lies between
MatchFrom(content) ==
  IF ~StartsWith(content, "---") THEN NoMatch
  ELSE LET P == {p \in 4..Len(content) :
                   /\ Ch(content, p) = "\n"
                   /\ \A j \in 4..(p - 1) : IsSpace(Ch(content, j))}
           Q(p) == {q \in (p + 1)..(Len(content) - 3) : SubSeq(content, q, q + 3) = "\n---"}
           Feasible == {p \in P : Q(p) # {}}
       IN  IF Feasible = {} THEN NoMatch
           ELSE LET p == CHOOSE x \in Feasible : \A y \in Feasible : y <= x
                    q == CHOOSE x \in Q(p) : \A y \in Q(p) : x <= y
                IN  Match(SubSeq(content, p + 1, q - 1))

\* the same pattern without its ^ anchor: the first place where it matches
frontmatterRegexUnanchored(content) ==
  LET Starts == {i \in 1..Len(content) :
                   MatchFrom(SubSeq(content, i, Len(content))).matched}
  IN  IF Starts = {} THEN NoMatch
      ELSE MatchFrom(SubSeq(content, CHOOSE i \in Starts : \A j \in Starts : i <= j,
                            Len(content)))

frontmatterRegex(content) == MatchFrom(content)

InitFrontmatter ==
  /\ PureInit
  /\ \E content \in MarkdownTexts(MaxLines) :
       call = [op |-> "extractFrontmatter", content |-> content]

\* extractFrontmatter: null without a match, otherwise what yaml.load
\* makes of the block, and null when it throws; pc keeps the match
ExtractFrontmatter ==
  /\ call.op = "extractFrontmatter"
  /\ ret = Pending
  /\ LET match == frontmatterRegex(call.content)
     IN  /\ pc' = match
         /\ ret' = IF ~match.matched THEN Null
                   ELSE IF ~yamlLoadText(match.block).ok THEN Null
                   ELSE yamlLoadText(match.block).value
  /\ UNCHANGED <<call, fs, console>>

NextFrontmatter == ExtractFrontmatter

SpecFrontmatter == InitFrontmatter /\ [][NextFrontmatter]_vars

\* a line matching ^---\s*$, and a line of blanks only
IsOpeningLine(line) ==
  StartsWith(line, "---") /\ \A j \in 4..Len(line) : IsSpace(Ch(line, j))

IsBlankLine(line) == \A j \in 1..Len(line) : IsSpace(Ch(line, j))

Least(S) == CHOOSE x \in S : \A y \in S : x <= y

\* lines a..b of a text, joined again
LinesBetween(lines, a, b) == JoinWith(SubSeq(lines, a, b), "\n")

\* C15 as claimed: a block is detected exactly when the first line matches
\* ^---\s*$ and a later line is exactly `---`; the block is the text between
\* the opening line and the first such line; content whose first line is no
\* opening line gives null.
C15_ExactDelimiterLines ==
  (call.op = "extractFrontmatter" /\ ret # Pending) =>
    LET lines == Split(call.content)
        Closing == {c \in 2..Len(lines) : lines[c] = "---"}
    IN  /\ pc.matched <=> (IsOpeningLine(lines[1]) /\ Closing # {})
        /\ (pc.matched /\ Closing # {}) =>
              pc.block = LinesBetween(lines, 2, Least(Closing) - 1)
        /\ ~IsOpeningLine(lines[1]) => (~pc.matched /\ ret = Null)

\* C15 as the code has it: a block is detected exactly when the first line
\* matches ^---\s*$ and some line from the third on begins with `---`; the
\* block is made of whole lines after the opening line, preceded only by
\* blank lines and followed by a line beginning with `---`; when the second
\* line is neither blank nor begins with `---` the block is the text between
\* the opening line and the first line beginning with `---`; content whose
\* first line is no opening line gives null.
C15_ClosingLineBeginsWithDashes ==
  (call.op = "extractFrontmatter" /\ ret # Pending) =>
    LET lines == Split(call.content)
        Closing == {c \in 3..Len(lines) : StartsWith(lines[c], "---")}
    IN  /\ pc.matched <=> (IsOpeningLine(lines[1]) /\ Closing # {})
        /\ pc.matched =>
              \E j \in 2..Len(lines), c \in 3..Len(lines) :
                 /\ j < c /\ StartsWith(lines[c], "---")
                 /\ \A k \in 2..(j - 1) : IsBlankLine(lines[k])
                 /\ pc.block = LinesBetween(lines, j, c - 1)
        /\ (pc.matched /\ ~IsBlankLine(lines[2]) /\ ~StartsWith(lines[2], "---")) =>
              pc.block = LinesBetween(lines, 2, Least(Closing) - 1)
        /\ ~IsOpeningLine(lines[1]) => (~pc.matched /\ ret = Null)

\* a block after a blank line, closed by the first of two lines beginning
\* with `---`
C15_BlankLineAndTwoClosingLines ==
  /\ call.op = "extractFrontmatter"
  /\ call.content = "---\n \na: 1\n---\n----"
  /\ ret # Pending
  /\ pc.matched /\ pc.block = "a: 1"
  /\ ret = Obj([a |-> Num(10)])

(***************************************************************************)
(* Build optimization: content hashes in file names                        *)
(***************************************************************************)
\* how many pieces a file name is put together from at most
MaxNameParts == 5

\* the pieces: a stem, the three separators, seven hexadecimal characters,
\* one more (upper case), and an extension
NameParts == {"app", ".", "_", "-", "abc1234", "E", ".css"}

FileNames(n) == {Concat(q) : q \in SeqsUpTo(NameParts, n)} \ {""}

\* {8,} of hashPattern
MinHashLength == 8

HexDigits == "0123456789abcdef"

\* [a-f0-9] as written, and under the i flag
IsLowerHex(c) == \E i \in 1..Len(HexDigits) : Ch(HexDigits, i) = c
IsHex(c) == IsLowerHex(toLowerCase(c))

\* [._-]
IsHashSeparator(c) == c \in {".", "_", "-"}

\* the pattern without its i flag
hasContentHashLowerCaseOnly(filename) ==
  \E i \in 1..Len(filename), n \in MinHashLength..Len(filename) :
     /\ i + n + 1 <= Len(filename)
     /\ IsHashSeparator(Ch(filename, i))
     /\ \A k \in (i + 1)..(i + n) : IsLowerHex(Ch(filename, k))
     /\ Ch(filename, i + n + 1) = "."

\* /[._-][a-f0-9]{8,}\./i.test(filename): a separator at i, then n >= 8
\* hexadecimal characters, then a dot, anywhere in the name
hasContentHash(filename) ==
  \E i \in 1..Len(filename), n \in MinHashLength..Len(filename) :
     /\ i + n + 1 <= Len(filename)
     /\ IsHashSeparator(Ch(filename, i))
     /\ \A k \in (i + 1)..(i + n) : IsHex(Ch(filename, k))
     /\ Ch(filename, i + n + 1) = "."

InitHash ==
  /\ PureInit
  /\ \E filename \in FileNames(MaxNameParts) :
       call = [op |-> "hasContentHash", filename |-> filename]

HasContentHash ==
  /\ call.op = "hasContentHash"
  /\ ret = Pending
  /\ ret' = [t |-> "boolean", b |-> hasContentHash(call.filename)]
  /\ UNCHANGED <<call, fs, pc, console>>

NextHash == HasContentHash

SpecHash == InitHash /\ [][NextHash]_vars

\* the length of the run of hexadecimal characters a text ends with
RECURSIVE TrailingHex(_)
TrailingHex(text) ==
  IF text = "" \/ ~IsHex(Ch(text, Len(text))) THEN 0
  ELSE 1 + TrailingHex(SubSeq(text, 1, Len(text) - 1))

\* segment k of a dotted name ends in a hash: at least 8 hexadecimal
\* characters that follow a `_` or `-` of the segment, or make up the whole
\* segment after the dot before it
IsHashSegment(segments, k) ==
  LET seg == segments[k]
      run == TrailingHex(seg)
  IN  /\ run >= 8
      /\ IF run = Len(seg) THEN k >= 2
         ELSE Ch(seg, Len(seg) - run) \in {"_", "-"}

\* C16 as claimed: hasContentHash is true iff the segment immediately before
\* the final extension ends in a hash.
C16_HashBeforeFinalExtension ==
  (call.op = "hasContentHash" /\ ret # Pending) =>
    LET segments == SplitOn(call.filename, ".")
    IN  ret.b <=> (Len(segments) >= 2 /\ IsHashSegment(segments, Len(segments) - 1))

\* C16 as the code has it: hasContentHash is true iff some segment that is
\* followed by a dot ends in a hash, whether or not further segments come
\* between it and the final extension.
C16_HashBeforeSomeDot ==
  (call.op = "hasContentHash" /\ ret # Pending) =>
    LET segments == SplitOn(call.filename, ".")
    IN  ret.b <=> \E k \in 1..(Len(segments) - 1) : IsHashSegment(segments, k)

\* a name whose hash segment is directly before the extension
C16_HashedName ==
  /\ call.op = "hasContentHash"
  /\ call.filename = "app.abc1234E.css"
  /\ ret = [t |-> "boolean", b |-> TRUE]

(***************************************************************************)
(* Build optimization: minification heuristics                             *)
(***************************************************************************)
\* `text` repeated n times
RECURSIVE Repeat(_, _)
Repeat(text, n) ==
  IF n = 0 THEN ""
  ELSE IF n % 2 = 0 THEN LET half == Repeat(text, n \div 2) IN half \o half
  ELSE text \o Repeat(text, n - 1)

\* (content.match(/\n/g) || []).length
NewlineCount(content) == Cardinality({i \in 1..Len(content) : Ch(content, i) = "\n"})

\* (content.match(/\s{2,}/g) || []).length: every maximal run of two or more
\* whitespace characters is one match
WhitespaceRunCount(content) ==
  Cardinality({i \in 1..(Len(content) - 1) :
                 /\ IsSpace(Ch(content, i)) /\ IsSpace(Ch(content, i + 1))
                 /\ (i = 1 \/ ~IsSpace(Ch(content, i - 1)))})

\* (content.match(/\/\*|\*\/|\/\//g) || []).length: the scan takes the
\* leftmost token and goes on behind it, so of a row of overlapping tokens
\* it takes the first, the third and so on
IsCommentToken(content, i) ==
  i >= 1 /\ i < Len(content) /\ SubSeq(content, i, i + 1) \in {"/*", "*/", "//"}

CommentCount(content) ==
  LET tokens == {i \in 1..(Len(content) - 1) : IsCommentToken(content, i)}
      rowStart(i) == CHOOSE j \in tokens :
                       /\ j <= i /\ (j - 1) \notin tokens
                       /\ \A k \in j..i : k \in tokens
  IN  Cardinality({i \in tokens : (i - rowStart(i)) % 2 = 0})

\* the thresholds of the three heuristics: lengths below which content counts
\* as minified, and the ratios 0.02, 0.001 and 0.005 in thousandths
HtmlSmallLength == 200
JsSmallLength == 100
HtmlNewlinePerMille == 20
CssWhitespacePerMille == 1
JsNoisePerMille == 5

\* the HTML heuristic without its small-content rule
isHtmlMinifiedRatioOnly(content) ==
  1000 * NewlineCount(content) < HtmlNewlinePerMille * Len(content)

\* newlineCount / contentLength < 0.02, small content aside
isHtmlMinified(content) ==
  IF Len(content) < HtmlSmallLength THEN TRUE
  ELSE 1000 * NewlineCount(content) < HtmlNewlinePerMille * Len(content)

\* whitespaceRatio < 0.001; for empty content the ratio is 0 / 0 = NaN, and
\* NaN < 0.001 is false
isCssMinified(content) ==
  IF Len(content) = 0 THEN FALSE
  ELSE 1000 * WhitespaceRunCount(content) < CssWhitespacePerMille * Len(content)

\* (newlineCount + commentCount) / contentLength < 0.005, small content aside
isJsMinified(content) ==
  IF Len(content) < JsSmallLength THEN TRUE
  ELSE 1000 * (NewlineCount(content) + CommentCount(content))
         < JsNoisePerMille * Len(content)

\* bounds of the documents the heuristics are applied to
MaxParagraphs == 12
MaxRuns == 2
MaxStatements == 12

\* widths of a paragraph's text
ParagraphWidths == {5, 60, 120}

\* an HTML document of n paragraphs, on a single line without indentation
\* or with one tag per line and 2-space indentation
HtmlDocument(n, width, layout) ==
  LET text == Repeat("x", width)
  IN  IF layout = "single-line"
        THEN "<!DOCTYPE html><html><body>"
               \o Repeat("<p>" \o text \o "</p>", n) \o "</body></html>"
        ELSE "<!DOCTYPE html>\n<html>\n  <body>\n"
               \o Repeat("    <p>" \o text \o "</p>\n", n) \o "  </body>\n</html>"

Layouts == {"single-line", "indented"}

\* lengths of the run-free part of a style sheet, around the lengths at
\* which one and two whitespace runs reach a thousandth
FillerLengths == (0..2) \cup (994..998) \cup (1990..1994)

\* a style sheet: `filler` characters without whitespace runs, then `runs`
\* rules holding one run of two blanks each
StyleSheet(filler, runs) == Repeat("a", filler) \o Repeat("{  }", runs)

\* a script of n statements, packed or one per line after a comment
Script(n, layout) ==
  IF layout = "single-line" THEN Repeat("var x=1;", n)
  ELSE Repeat("// step\nvar x = 1;\n", n)

InitMinify ==
  /\ PureInit
  /\ \/ \E n \in 0..MaxParagraphs, width \in ParagraphWidths, layout \in Layouts :
          call = [op |-> "isHtmlMinified", layout |-> layout,
                  content |-> HtmlDocument(n, width, layout)]
     \/ \E filler \in FillerLengths, runs \in 0..MaxRuns :
          call = [op |-> "isCssMinified", layout |-> "rules",
                  content |-> StyleSheet(filler, runs)]
     \/ \E n \in 0..MaxStatements, layout \in Layouts :
          call = [op |-> "isJsMinified", layout |-> layout,
                  content |-> Script(n, layout)]

IsHtmlMinified ==
  /\ call.op = "isHtmlMinified" /\ ret = Pending
  /\ ret' = [t |-> "boolean", b |-> isHtmlMinified(call.content)]
  /\ UNCHANGED <<call, fs, pc, console>>

IsCssMinified ==
  /\ call.op = "isCssMinified" /\ ret = Pending
  /\ ret' = [t |-> "boolean", b |-> isCssMinified(call.content)]
  /\ UNCHANGED <<call, fs, pc, console>>

IsJsMinified ==
  /\ call.op = "isJsMinified" /\ ret = Pending
  /\ ret' = [t |-> "boolean", b |-> isJsMinified(call.content)]
  /\ UNCHANGED <<call, fs, pc, console>>

NextMinify ==
  \/ IsHtmlMinified
  \/ IsCssMinified
  \/ IsJsMinified

SpecMinify == InitMinify /\ [][NextMinify]_vars

\* the line breaks of a text, counted from its lines
LineBreaks(content) == Len(Split(content)) - 1

\* C19 as claimed: a single-line HTML document is reported minified, and
\* the same content with one tag per line and 2-space indentation is
\* reported not minified, whatever its size.
C19_IndentedNeverMinified ==
  (call.op = "isHtmlMinified" /\ ret # Pending) =>
    /\ LineBreaks(call.content) = 0 => ret.b
    /\ call.layout = "indented" => ~ret.b

\* C19 as the code has it: a single-line HTML document is reported minified
\* whatever its content and length; the same content with one tag per line
\* and 2-space indentation is reported not minified exactly when it is at
\* least 200 characters long and has at least one line break per 50
\* characters, and minified otherwise.
C19_IndentedLongEnoughNotMinified ==
  (call.op = "isHtmlMinified" /\ ret # Pending) =>
    /\ LineBreaks(call.content) = 0 => ret.b
    /\ call.layout = "indented" =>
         (~ret.b <=> (Len(call.content) >= 200
                        /\ 50 * LineBreaks(call.content) >= Len(call.content)))

\* an indented document of nine short paragraphs was reported not minified
C19_IndentedDocumentCase ==
  /\ call.op = "isHtmlMinified" /\ call.layout = "indented"
  /\ call.content = HtmlDocument(9, 5, "indented")
  /\ ret = [t |-> "boolean", b |-> FALSE]

\* the maximal runs of two or more whitespace characters of a text, each
\* named by the position of its last character
WhitespaceRunEnds(content) ==
  {j \in 2..Len(content) :
     /\ IsSpace(Ch(content, j)) /\ IsSpace(Ch(content, j - 1))
     /\ (j = Len(content) \/ ~IsSpace(Ch(content, j + 1)))}

\* C20: isCssMinified is true exactly when 1000 * runs < length, runs being
\* the number of maximal runs of two or more whitespace characters; in
\* particular content without any such run is reported minified whatever
\* its length.
C20_CssRunsBelowThousandth ==
  (call.op = "isCssMinified" /\ ret # Pending) =>
    LET runs == Cardinality(WhitespaceRunEnds(call.content))
    IN  /\ ret.b <=> (1000 * runs < Len(call.content))
        /\ runs = 0 => ret.b

\* C20 for content that is not empty
C20_CssRunsBelowThousandthNonEmpty ==
  (call.op = "isCssMinified" /\ ret # Pending /\ call.content # "") =>
    LET runs == Cardinality(WhitespaceRunEnds(call.content))
    IN  /\ ret.b <=> (1000 * runs < Len(call.content))
        /\ runs = 0 => ret.b

\* the empty style sheet was reported not minified
C20_EmptyStyleSheetCase ==
  /\ call.op = "isCssMinified" /\ call.content = ""
  /\ ret = [t |-> "boolean", b |-> FALSE]

(***************************************************************************)
(* Build optimization: the build report                                    *)
(***************************************************************************)
\* the build output directory and the files a build may leave in it, by
\* their path below the output directory, in the order in which the
\* directory listings yield them
OutputDir == "dist"
BuildFiles == <<"app.js", "assets/js/vendor.js", "assets/logo.png",
                "assets/main.def67890.js", "assets/style.abc12345.css",
                "assets/style.css", "index.html", "static/assets/app.js">>

MaxBuildFiles == 4

ImageExtensions == {".jpg", ".jpeg", ".png", ".gif", ".webp", ".svg", ".avif", ".ico"}

\* a classification that compares the extension as it is spelled
getAssetTypeCaseSensitive(filePath) ==
  LET ext == extname(BaseName(filePath))
  IN  CASE ext \in {".html", ".htm"} -> "html"
        [] ext = ".css" -> "css"
        [] ext \in {".js", ".mjs"} -> "js"
        [] ext \in ImageExtensions -> "image"
        [] OTHER -> "other"

getAssetType(filePath) ==
  LET ext == toLowerCase(extname(BaseName(filePath)))
  IN  CASE ext \in {".html", ".htm"} -> "html"
        [] ext = ".css" -> "css"
        [] ext \in {".js", ".mjs"} -> "js"
        [] ext \in ImageExtensions -> "image"
        [] OTHER -> "other"

\* what a build writes into a file of the given name: packed or
\* pretty-printed text
BuildContents(name) ==
  CASE getAssetType(name) = "html" ->
         {"<!DOCTYPE html><html><head><title>Test</title></head><body><p>Content</p></body></html>",
          HtmlDocument(9, 5, "indented")}
    [] getAssetType(name) = "css" ->
         {".test{color:red;margin:0}", ".test {\n  color: red;\n}"}
    [] getAssetType(name) = "js" ->
         {"var x=1;function y(){return x}", Script(8, "indented")}
    [] OTHER -> {"PNG"}

BuildPath(i) == PathJoin(OutputDir, BuildFiles[i])
BuildPaths == {BuildPath(i) : i \in 1..Len(BuildFiles)}
EmptyBuild == [p \in BuildPaths |-> Absent]
BuildFile(content) == [type |-> "file", readable |-> TRUE, content |-> content]

\* path.relative(baseDir, fullPath) of a path below baseDir
PathRelative(baseDir, fullPath) == SubSeq(fullPath, Len(baseDir) + 2, Len(fullPath))

\* the files of the tree that lie below dir, by their place in BuildFiles
Below(tree, dir) ==
  {i \in 1..Len(BuildFiles) :
     tree[BuildPath(i)].type # "absent" /\ StartsWith(BuildPath(i), dir \o "/")}

\* fs.readdirSync(dir, {withFileTypes: true}) on the build tree: one entry
\* per name directly below dir, a directory when files lie below it
RECURSIVE Dirents(_, _, _)
Dirents(tree, dir, I) ==
  IF I = {} THEN <<>>
  ELSE LET i == CHOOSE x \in I : \A y \in I : x <= y
           segments == SplitOn(PathRelative(dir, BuildPath(i)), "/")
           name == segments[1]
           same == {j \in I : StartsWith(BuildPath(j), PathJoin(dir, name) \o "/")
                                \/ BuildPath(j) = PathJoin(dir, name)}
       IN  <<[name |-> name, isDirectory |-> Len(segments) > 1]>>
             \o Dirents(tree, dir, I \ same)

RECURSIVE collectFiles(_, _, _)
RECURSIVE CollectEntries(_, _, _, _)
\* the loop over the entries of collectFiles
CollectEntries(tree, dir, baseDir, entries) ==
  IF entries = <<>> THEN <<>>
  ELSE LET entry == Head(entries)
           fullPath == PathJoin(dir, entry.name)
           relativePath == PathRelative(baseDir, fullPath)
       IN  (IF entry.isDirectory THEN collectFiles(tree, fullPath, baseDir)
            ELSE <<[path |-> relativePath,
                    size |-> Len(tree[fullPath].content),
                    type |-> getAssetType(entry.name),
                    hasHash |-> hasContentHash(entry.name)]>>)
             \o CollectEntries(tree, dir, baseDir, Tail(entries))

collectFiles(tree, dir, baseDir) ==
  IF Below(tree, dir) = {} THEN <<>>
  ELSE CollectEntries(tree, dir, baseDir, Dirents(tree, dir, Below(tree, dir)))

OfType(assets, type) == SelectSeq(assets, LAMBDA a : a.type = type)

\* files.slice(0, 3)
SampleSize == 3
\* every file taken as a sample
SampleAll(files) == files

Sample(files) == SubSeq(files, 1, IF Len(files) < SampleSize THEN Len(files) ELSE SampleSize)

RECURSIVE SumSizes(_)
SumSizes(assets) == IF assets = <<>> THEN 0 ELSE Head(assets).size + SumSizes(Tail(assets))

\* Math.round of the average size, 0 without files
AverageSize(files) ==
  IF Len(files) > 0 THEN (2 * SumSizes(files) + Len(files)) \div (2 * Len(files)) ELSE 0

\* every file of the assets folder, whatever its type
InAssetsFolderAnyType(a) == StartsWith(a.path, "assets/")

\* the css and js assets of the assets folder
InAssetsFolder(a) == StartsWith(a.path, "assets/") /\ (a.type = "css" \/ a.type = "js")

\* the check a sampling loop applies to the content of a file of its type
isMinified(type, content) ==
  CASE type = "html" -> isHtmlMinified(content)
    [] type = "css" -> isCssMinified(content)
    [] OTHER -> isJsMinified(content)

\* how a sampling loop ends: the files it has read, the flag, and the
\* error of a read that threw
LoopEnd(reads, minified, thrown, message) ==
  [reads |-> reads, minified |-> minified, thrown |-> thrown, message |-> message]

RECURSIVE SampleLoopWithoutBreak(_, _, _)
\* a loop that goes on after a sample has failed its check
SampleLoopWithoutBreak(tree, outputDir, files) ==
  IF files = <<>> THEN LoopEnd(<<>>, TRUE, FALSE, "")
  ELSE LET file == PathJoin(outputDir, Head(files).path)
           read == readFileSync(tree, file)
           rest == SampleLoopWithoutBreak(tree, outputDir, Tail(files))
       IN  IF ~read.ok THEN LoopEnd(<<file>>, TRUE, TRUE, read.message)
           ELSE LoopEnd(<<file>> \o rest.reads,
                        isMinified(Head(files).type, read.content) /\ rest.minified,
                        rest.thrown, rest.message)

RECURSIVE SampleLoop(_, _, _)
\* for (const asset of files.slice(0, 3)): the content is read and
\* checked, and the first sample that fails its check ends the loop
SampleLoop(tree, outputDir, files) ==
  IF files = <<>> THEN LoopEnd(<<>>, TRUE, FALSE, "")
  ELSE LET file == PathJoin(outputDir, Head(files).path)
           read == readFileSync(tree, file)
           rest == SampleLoop(tree, outputDir, Tail(files))
       IN  IF ~read.ok THEN LoopEnd(<<file>>, TRUE, TRUE, read.message)
           ELSE IF ~isMinified(Head(files).type, read.content)
             THEN LoopEnd(<<file>>, FALSE, FALSE, "")
           ELSE LoopEnd(<<file>> \o rest.reads, rest.minified, rest.thrown, rest.message)

\* the three loops one after the other, up to the first read that throws
SampleLoops(tree, outputDir, assets) ==
  LET html == SampleLoop(tree, outputDir, Sample(OfType(assets, "html")))
      css == SampleLoop(tree, outputDir, Sample(OfType(assets, "css")))
      js == SampleLoop(tree, outputDir, Sample(OfType(assets, "js")))
  IN  IF html.thrown THEN [html |-> html, css |-> LoopEnd(<<>>, TRUE, TRUE, html.message),
                           js |-> LoopEnd(<<>>, TRUE, TRUE, html.message)]
      ELSE IF css.thrown THEN [html |-> html, css |-> css,
                               js |-> LoopEnd(<<>>, TRUE, TRUE, css.message)]
      ELSE [html |-> html, css |-> css, js |-> js]

\* the files generateBuildReport reads, in the order of the reads
SampleReads(tree, outputDir, assets) ==
  LET loops == SampleLoops(tree, outputDir, assets)
  IN  loops.html.reads \o loops.css.reads \o loops.js.reads

\* generateBuildReport once collectFiles has returned `assets`: the
\* report, or the error of the read that threw
BuildReportOf(tree, outputDir, assets, now) ==
  LET htmlFiles == OfType(assets, "html")
      cssFiles == OfType(assets, "css")
      jsFiles == OfType(assets, "js")
      imageFiles == OfType(assets, "image")
      otherFiles == OfType(assets, "other")
      loops == SampleLoops(tree, outputDir, assets)
      htmlMinified == loops.html.minified
      cssMinified == loops.css.minified
      jsMinified == loops.js.minified
      assetsInAssetsFolder == SelectSeq(assets, InAssetsFolder)
      allAssetsHashed ==
        Len(assetsInAssetsFolder) = 0
          \/ \A i \in 1..Len(assetsInAssetsFolder) : assetsInAssetsFolder[i].hasHash
  IN  IF loops.js.thrown THEN Throw(loops.js.message)
      ELSE Return(
      [timestamp |-> now,
       outputDir |-> outputDir,
       assets |-> assets,
       summary |-> [totalFiles |-> Len(assets),
                    totalSize |-> SumSizes(assets),
                    htmlFiles |-> Len(htmlFiles),
                    cssFiles |-> Len(cssFiles),
                    jsFiles |-> Len(jsFiles),
                    imageFiles |-> Len(imageFiles),
                    otherFiles |-> Len(otherFiles),
                    hashedAssets |-> Len(SelectSeq(assets, LAMBDA a : a.hasHash)),
                    averageHtmlSize |-> AverageSize(htmlFiles),
                    averageCssSize |-> AverageSize(cssFiles),
                    averageJsSize |-> AverageSize(jsFiles)],
       optimizationChecks |-> [allAssetsHashed |-> allAssetsHashed,
                               htmlMinified |-> htmlMinified,
                               cssMinified |-> cssMinified,
                               jsMinified |-> jsMinified]])

generateBuildReport(tree, outputDir, now) ==
  BuildReportOf(tree, outputDir, collectFiles(tree, outputDir, outputDir), now)

HashError == "Not all CSS/JS assets in the assets folder have content hashes"
HtmlError == "HTML files do not appear to be minified"
CssError == "CSS files do not appear to be minified"
JsError == "JavaScript files do not appear to be minified"

\* the errors of a report's optimization checks
OptimizationErrorsWithoutJs(checks) ==
  (IF ~checks.allAssetsHashed THEN <<HashError>> ELSE <<>>)
    \o (IF ~checks.htmlMinified THEN <<HtmlError>> ELSE <<>>)
    \o (IF ~checks.cssMinified THEN <<CssError>> ELSE <<>>)

OptimizationErrors(checks) ==
  (IF ~checks.allAssetsHashed THEN <<HashError>> ELSE <<>>)
    \o (IF ~checks.htmlMinified THEN <<HtmlError>> ELSE <<>>)
    \o (IF ~checks.cssMinified THEN <<CssError>> ELSE <<>>)
    \o (IF ~checks.jsMinified THEN <<JsError>> ELSE <<>>)

\* validateBuildOptimization once generateBuildReport has returned or thrown
ValidationOf(generated) ==
  LET report == generated.value
      errors == OptimizationErrors(report.optimizationChecks)
  IN  IF generated.t = "throw" THEN generated
      ELSE Return([valid |-> Len(errors) = 0, report |-> report, errors |-> errors])

validateBuildOptimization(tree, outputDir, now) ==
  ValidationOf(generateBuildReport(tree, outputDir, now))

InitBuild ==
  /\ call = Idle /\ ret = Pending
  /\ fs = EmptyBuild /\ pc = "idle" /\ console = <<>>

\* the build writes a file into the output directory
WriteBuildFile(path, content) ==
  /\ call = Idle /\ pc = "idle"
  /\ fs[path].type = "absent"
  /\ Cardinality({p \in BuildPaths : fs[p].type # "absent"}) < MaxBuildFiles
  /\ fs' = [fs EXCEPT ![path] = BuildFile(content)]
  /\ UNCHANGED <<call, ret, pc, console>>

\* a file of the output directory loses its read permission
ProtectBuildFile(path) ==
  /\ call = Idle /\ pc = "idle"
  /\ fs[path].type = "file" /\ fs[path].readable
  /\ fs' = [fs EXCEPT ![path].readable = FALSE]
  /\ UNCHANGED <<call, ret, pc, console>>

\* generateBuildReport(outputDir); pc keeps the files it has read
GenerateBuildReport(now) ==
  /\ call = Idle /\ pc = "idle"
  /\ call' = [op |-> "generateBuildReport", outputDir |-> OutputDir, now |-> now]
  /\ ret' = generateBuildReport(fs, OutputDir, now)
  /\ pc' = [reads |-> SampleReads(fs, OutputDir, collectFiles(fs, OutputDir, OutputDir))]
  /\ UNCHANGED <<fs, console>>

ValidateBuildOptimization(now) ==
  /\ call = Idle /\ pc = "idle"
  /\ call' = [op |-> "validateBuildOptimization", outputDir |-> OutputDir, now |-> now]
  /\ ret' = validateBuildOptimization(fs, OutputDir, now)
  /\ pc' = [reads |-> SampleReads(fs, OutputDir, collectFiles(fs, OutputDir, OutputDir))]
  /\ UNCHANGED <<fs, console>>

NextBuild ==
  \/ \E i \in 1..Len(BuildFiles) : \E content \in BuildContents(BuildFiles[i]) :
       WriteBuildFile(BuildPath(i), content)
  \/ \E now \in Timestamps : GenerateBuildReport(now)
  \/ \E now \in Timestamps : ValidateBuildOptimization(now)

SpecBuild == InitBuild /\ [][NextBuild]_vars

ScriptPaths == {p \in BuildPaths : getAssetType(p) = "js"}

\* builds in which scripts may have lost their read permission
NextSample ==
  \/ \E i \in 1..Len(BuildFiles) : \E content \in BuildContents(BuildFiles[i]) :
       WriteBuildFile(BuildPath(i), content)
  \/ \E path \in ScriptPaths : ProtectBuildFile(path)
  \/ \E now \in Timestamps : GenerateBuildReport(now)

SpecSample == InitBuild /\ [][NextSample]_vars

\* the directories a relative path leads through
DirectorySegments(path) ==
  LET segments == SplitOn(path, "/")
  IN  [k \in 1..(Len(segments) - 1) |-> segments[k]]

IsStyleOrScript(a) == a.type \in {"css", "js"}

\* C17 as claimed: allAssetsHashed is true if and only if every css or js
\* asset whose relative path leads through a directory named assets, at any
\* depth of the build output, has hasHash = true.
C17_AssetsAtAnyDepthHashed ==
  (call.op = "generateBuildReport") =>
    LET report == ret.value
    IN  report.optimizationChecks.allAssetsHashed <=>
          \A i \in 1..Len(report.assets) :
            (IsStyleOrScript(report.assets[i])
               /\ "assets" \in Range(DirectorySegments(report.assets[i].path)))
              => report.assets[i].hasHash

\* C17 as the code has it: allAssetsHashed is true if and only if every css
\* or js asset whose relative path begins with assets/ (the assets
\* directory directly below the build output, and everything below it) has
\* hasHash = true; it is vacuously true without such an asset, and html
\* files, images and files elsewhere never make it false.
C17_TopLevelAssetsHashed ==
  (call.op = "generateBuildReport") =>
    LET report == ret.value
    IN  report.optimizationChecks.allAssetsHashed <=>
          \A i \in 1..Len(report.assets) :
            (IsStyleOrScript(report.assets[i])
               /\ Len(DirectorySegments(report.assets[i].path)) > 0
               /\ DirectorySegments(report.assets[i].path)[1] = "assets")
              => report.assets[i].hasHash

\* a report on a build with a hashed script in assets/, an unhashed script
\* in static/assets/ and an unhashed page found all assets hashed
C17_NestedAssetsIgnored ==
  /\ call.op = "generateBuildReport"
  /\ fs[PathJoin(OutputDir, "static/assets/app.js")].type = "file"
  /\ fs[PathJoin(OutputDir, "assets/main.def67890.js")].type = "file"
  /\ fs[PathJoin(OutputDir, "index.html")].type = "file"
  /\ ret.value.summary.totalFiles = 3
  /\ ret.value.optimizationChecks.allAssetsHashed

Contains(s, sub) ==
  \E i \in 1..(Len(s) - Len(sub) + 1) : SubSeq(s, i, i + Len(sub) - 1) = sub

\* the messages of an error list that speak of one optimization check
MessagesAbout(errors, flag) ==
  {i \in 1..Len(errors) :
     CASE flag = "allAssetsHashed" -> Contains(errors[i], "content hashes")
       [] flag = "htmlMinified" -> StartsWith(errors[i], "HTML files")
       [] flag = "cssMinified" -> StartsWith(errors[i], "CSS files")
       [] flag = "jsMinified" -> StartsWith(errors[i], "JavaScript files")}

CheckFlags == {"allAssetsHashed", "htmlMinified", "cssMinified", "jsMinified"}

\* C18: validateBuildOptimization returns valid = true if and only if its
\* errors list is empty, which holds if and only if all four optimization
\* checks of the returned report are true; the errors list holds exactly
\* one message per false check, and the message for a false allAssetsHashed
\* contains "content hashes".
C18_ValidIffNoErrorsIffAllChecks ==
  (call.op = "validateBuildOptimization") =>
    LET result == ret.value
        checks == result.report.optimizationChecks
    IN  /\ result.valid <=> (result.errors = <<>>)
        /\ (result.errors = <<>>) <=> (\A flag \in CheckFlags : checks[flag])
        /\ Len(result.errors) = Cardinality({flag \in CheckFlags : ~checks[flag]})
        /\ \A flag \in CheckFlags :
             Cardinality(MessagesAbout(result.errors, flag)) = (IF checks[flag] THEN 0 ELSE 1)

\* an unhashed style sheet in assets/ beside a minified page and a hashed
\* script made the build invalid, with the content-hash message only
C18_UnhashedStyleSheetInvalid ==
  /\ call.op = "validateBuildOptimization"
  /\ fs[PathJoin(OutputDir, "assets/style.css")] = BuildFile(".test{color:red;margin:0}")
  /\ fs[PathJoin(OutputDir, "assets/style.abc12345.css")].type = "absent"
  /\ fs[PathJoin(OutputDir, "assets/main.def67890.js")].type = "file"
  /\ fs[PathJoin(OutputDir, "index.html")].type = "file"
  /\ ~ret.value.valid
  /\ ret.value.errors = <<HashError>>

(***************************************************************************)
(* detectContentChanges: shape of the three lists                          *)
(***************************************************************************)
NoDuplicates(list) == \A i, j \in 1..Len(list) : list[i] = list[j] => i = j

\* the lists of one result are well formed for the manifests they compare,
\* and the comparison the other way round mirrors them
ChangeListsMirrored(o, n, changes) ==
  LET swapped == detectContentChanges(n, o)
  IN  /\ Range(changes.added) \cap Range(changes.modified) = {}
      /\ Range(changes.added) \cap Range(changes.deleted) = {}
      /\ Range(changes.modified) \cap Range(changes.deleted) = {}
      /\ NoDuplicates(changes.added)
      /\ NoDuplicates(changes.modified)
      /\ NoDuplicates(changes.deleted)
      /\ Range(changes.added) \subseteq OwnKeys(n)
      /\ Range(changes.modified) \subseteq OwnKeys(n)
      /\ Range(changes.deleted) \subseteq OwnKeys(o)
      /\ (o = n => changes = [added |-> <<>>, modified |-> <<>>, deleted |-> <<>>])
      /\ swapped.added = changes.deleted
      /\ swapped.deleted = changes.added
      /\ Range(swapped.modified) = Range(changes.modified)

\* C29: for every pair of manifests the three lists of detectContentChanges
\* are pairwise disjoint and without repetition, added and modified hold
\* only keys of the new manifest and deleted only keys of the old one,
\* comparing a manifest with itself gives three empty lists, and swapping
\* the arguments swaps added with deleted and keeps the set of modified
\* paths.
C29_ListsDisjointAndMirrored ==
  (call.op = "detectContentChanges" /\ ret # Pending) =>
    ChangeListsMirrored(call.old, call.new, ret)

\* a comparison with a changed shared path and a removed one, whose
\* mirror image has the removed path as its only addition
C29_RemovedAndChangedCase ==
  /\ call.op = "detectContentChanges" /\ ret # Pending
  /\ Len(call.old) = 2 /\ Len(call.new) = 1
  /\ Len(ret.deleted) = 1 /\ Len(ret.modified) = 1
  /\ detectContentChanges(call.new, call.old).added = ret.deleted

(***************************************************************************)
(* validateYamlFile against loadYamlFile                                   *)
(***************************************************************************)
\* why a validation result and a load result failed, read off the error text
ValidationCause(result) ==
  IF result.valid THEN "none"
  ELSE IF StartsWith(result.errors[1], "File not found: ") THEN "missing file"
  ELSE IF StartsWith(result.errors[1], "Parse error: ") THEN "unparsable"
  ELSE "schema violation"

LoadCause(result) ==
  IF result.success THEN "none"
  ELSE IF StartsWith(result.error, "File not found: ") THEN "missing file"
  ELSE IF StartsWith(result.error, "Failed to load file: ") THEN "unparsable"
  ELSE IF StartsWith(result.error, "Schema validation failed: ") THEN "schema violation"
  ELSE "other"

\* C28: on every file system snapshot, for every path and schema,
\* validateYamlFile(path, schema).valid equals
\* loadYamlFile(path, schema).success, and the two fail for the same cause
\* (missing file, unparsable YAML, schema violation).
C28_ValidatorAgreesWithLoader ==
  /\ (call.op = "validateYamlFile") =>
       LET loaded == loadYamlFile(fs, call.path, FileSchema(call.path))
       IN  /\ ret.value.valid = loaded.success
           /\ ValidationCause(ret.value) = LoadCause(loaded)
  /\ (call.op = "loadYamlFile") =>
       LET validated == validateYamlFile(fs, call.path, FileSchema(call.path))
       IN  /\ ret.value.success = validated.valid
           /\ LoadCause(ret.value) = ValidationCause(validated)

\* a file that parses but violates its schema was refused by the validator
\* for the cause for which the loader refuses it
C28_SchemaViolationCase ==
  /\ call.op = "validateYamlFile"
  /\ ~ret.value.valid
  /\ ValidationCause(ret.value) = "schema violation"
  /\ LoadCause(loadYamlFile(fs, call.path, FileSchema(call.path))) = "schema violation"

(***************************************************************************)
(* getAssetType                                                            *)
(***************************************************************************)
\* file names to classify: a stem and an extension in some spelling
NameStems == {"main", "index.min", "", "dist/app.css/readme", ".config"}
ExtensionSpellings ==
  {"", ".", ".html", ".HTML", ".htm", ".Htm", ".css", ".CSS", ".js", ".Js",
   ".mjs", ".MJS", ".jpg", ".JPG", ".jpeg", ".png", ".PNG", ".gif", ".webp",
   ".svg", ".SVG", ".avif", ".ico", ".ICO", ".txt", ".htmlx", ".map"}

InitAssetType ==
  /\ PureInit
  /\ \E stem \in NameStems, ext \in ExtensionSpellings :
       call = [op |-> "getAssetType", filePath |-> stem \o ext]

GetAssetType ==
  /\ call.op = "getAssetType" /\ ret = Pending
  /\ ret' = [t |-> "string", s |-> getAssetType(call.filePath)]
  /\ UNCHANGED <<call, fs, pc, console>>

NextAssetType == GetAssetType

SpecAssetType == InitAssetType /\ [][NextAssetType]_vars

\* the extension of a file name, without its dot and in lower case: what
\* follows the last dot of the last path segment, when that dot is not the
\* first character of the segment
LowerCaseExtension(filePath) ==
  LET segments == SplitOn(filePath, "/")
      parts == SplitOn(segments[Len(segments)], ".")
  IN  IF Len(parts) < 2 \/ (Len(parts) = 2 /\ parts[1] = "") THEN ""
      ELSE toLowerCase(parts[Len(parts)])

\* C23: getAssetType gives a type to every file name, decided by the
\* extension alone and whatever its letter case: html and htm give html,
\* css gives css, js and mjs give js, jpg, jpeg, png, gif, webp, svg, avif
\* and ico give image, every other name gives other.
C23_TypeByLowerCaseExtension ==
  (call.op = "getAssetType" /\ ret # Pending) =>
    LET ext == LowerCaseExtension(call.filePath)
    IN  ret.s = CASE ext \in {"html", "htm"} -> "html"
                  [] ext = "css" -> "css"
                  [] ext \in {"js", "mjs"} -> "js"
                  [] ext \in {"jpg", "jpeg", "png", "gif", "webp", "svg", "avif", "ico"} -> "image"
                  [] OTHER -> "other"

\* main.MJS was classified as js
C23_UpperCaseModuleCase ==
  /\ call.op = "getAssetType" /\ call.filePath = "main.MJS"
  /\ ret = [t |-> "string", s |-> "js"]

(***************************************************************************)
(* generateBuildReport: minification samples                               *)
(***************************************************************************)
\* the paths of the build files of a type, in the order in which
\* collectFiles finds them (a directory lists its names in the order of
\* BuildFiles)
PathsOfType ==
  [type \in {"html", "css", "js"} |->
     SelectSeq([i \in 1..Len(BuildFiles) |-> BuildPath(i)],
               LAMBDA p : getAssetType(p) = type)]

\* the first three files of a type that a tree holds
FirstThreeOfType(tree, type) ==
  LET found == SelectSeq(PathsOfType[type], LAMBDA p : tree[p].type = "file")
  IN  [i \in 1..(IF Len(found) < 3 THEN Len(found) ELSE 3) |-> found[i]]

\* the minification check of a type, applied to what the file holds: the
\* contents a build writes that pass it
PassingContents ==
  [type \in {"html", "css", "js"} |->
     {content \in UNION {BuildContents(BuildFiles[i]) : i \in 1..Len(BuildFiles)} :
        CASE type = "html" -> isHtmlMinified(content)
          [] type = "css" -> isCssMinified(content)
          [] type = "js" -> isJsMinified(content)}]

\* what the samples of a type say: which of them fail the check, which of
\* them end the loop (by failing, or because they cannot be read), the
\* samples read, and whether the loop ends on a sample that cannot be read
SamplesOfType(tree, type) ==
  LET samples == FirstThreeOfType(tree, type)
      failing == {i \in 1..Len(samples) :
                    tree[samples[i]].content \notin PassingContents[type]}
      ending == {i \in 1..Len(samples) : ~tree[samples[i]].readable} \cup failing
      last == IF ending = {} THEN Len(samples) ELSE Least(ending)
  IN  [failing |-> failing,
       read |-> SubSeq(samples, 1, last),
       unreadable |-> ending # {} /\ ~tree[samples[last]].readable]

\* C27: generateBuildReport decides htmlMinified, cssMinified and jsMinified
\* from at most the first three files of the type in collection order: the
\* flag is false if and only if one of those files fails its check;
\* checking stops at the first failing sample (no file after it is read);
\* later files of the type have no influence, and without a file of the
\* type the flag is true.
C27_FlagsFromFirstThreeSamples ==
  (call.op = "generateBuildReport") =>
    LET html == SamplesOfType(fs, "html")
        css == SamplesOfType(fs, "css")
        js == SamplesOfType(fs, "js")
    IN  /\ pc.reads =
             html.read \o (IF html.unreadable THEN <<>>
                           ELSE css.read \o (IF css.unreadable THEN <<>> ELSE js.read))
        /\ ret.t = "return" <=> ~(html.unreadable \/ css.unreadable \/ js.unreadable)
        /\ ret.t = "return" =>
             LET checks == ret.value.optimizationChecks
             IN  /\ ~checks.htmlMinified <=> html.failing # {}
                 /\ ~checks.cssMinified <=> css.failing # {}
                 /\ ~checks.jsMinified <=> js.failing # {}

\* the first script pretty-printed and the second without read
\* permission: the report was made, with the scripts found not minified
\* and the first script the only one read
C27_StoppedBeforeUnreadableScript ==
  /\ call.op = "generateBuildReport"
  /\ fs[PathJoin(OutputDir, "app.js")] = BuildFile(Script(8, "indented"))
  /\ fs[PathJoin(OutputDir, "assets/js/vendor.js")].type = "file"
  /\ ~fs[PathJoin(OutputDir, "assets/js/vendor.js")].readable
  /\ fs[PathJoin(OutputDir, "index.html")].type = "absent"
  /\ ret.t = "return"
  /\ ~ret.value.optimizationChecks.jsMinified
  /\ pc.reads = <<PathJoin(OutputDir, "app.js")>>

(***************************************************************************)
(* File system access failures                                             *)
(***************************************************************************)
\* what a content path may hold when access rights are in play: nothing
\* reachable, or a dated file that cannot be read, is well formed, or is
\* broken
AccessNodes(path) ==
  {Inaccessible}
    \cup {StampedFile(FALSE, BlankText(path), t) : t \in Times}
    \cup {StampedFile(TRUE, DocText(path, {}), t) : t \in Times}
    \cup {StampedFile(TRUE, MalformedText(path), t) : t \in Times}

InitAccess ==
  /\ fs = EmptyFs
  /\ call = Idle /\ ret = Pending /\ pc = "idle" /\ console = <<>>

GetFileModifiedTime(path) ==
  /\ call = Idle /\ pc = "idle"
  /\ call' = [op |-> "getFileModifiedTime", path |-> path]
  /\ ret' = getFileModifiedTime(fs, path)
  /\ UNCHANGED <<fs, pc, console>>

NextAccess ==
  \/ \E path \in ContentPaths : \E node \in AccessNodes(path) : PlaceFile(path, node)
  \/ \E path \in ContentPaths : GetFileModifiedTime(path)
  \/ \E path \in Range(YamlPaths) : LoadYamlFile(path)
  \/ \E path \in Range(YamlPaths) : ValidateYamlFile(path)
  \/ \E path \in Range(EntryPaths) : ValidateMarkdownFile(path)

SpecAccess == InitAccess /\ [][NextAccess]_vars

\* the path of the call cannot be reached, or holds a file that cannot be read
Unreachable(path) == fs[path].type = "inaccessible"
Unreadable(path) == fs[path].type = "file" /\ ~fs[path].readable

\* the outcome each operation reports for a missing file
NotFoundOutcome(op, path) ==
  CASE op = "getFileModifiedTime" -> Return(Null)
    [] op = "loadYamlFile" ->
         Return([success |-> FALSE, error |-> "File not found: " \o path])
    [] OTHER -> Return(Invalid(path, <<"File not found: " \o path>>))

FileOperations == {"getFileModifiedTime", "loadYamlFile", "validateYamlFile", "validateMarkdownFile"}

\* C24 as claimed: a failure to access the path, permission denied on the
\* stat or on the read, is treated as an absent file: getFileModifiedTime
\* returns null, and validateYamlFile, validateMarkdownFile and loadYamlFile
\* report what they report for a missing file; nothing is thrown.
C24_AccessFailureIsAbsence ==
  (call.op \in FileOperations) =>
    /\ ret.t = "return"
    /\ Unreachable(call.path) => ret = NotFoundOutcome(call.op, call.path)
    /\ (Unreadable(call.path) /\ call.op # "getFileModifiedTime") =>
         ret = NotFoundOutcome(call.op, call.path)

\* C24 as the code has it: nothing is thrown; a path that cannot be reached
\* is treated as an absent file (null, or the not-found outcome); a file
\* that exists and cannot be read is reported by the validators as
\* `Parse error: <message of the failure>` and by the loader as
\* `Failed to load file: <message of the failure>`.
C24_ReadFailureIsParseError ==
  (call.op \in FileOperations) =>
    /\ ret.t = "return"
    /\ Unreachable(call.path) => ret = NotFoundOutcome(call.op, call.path)
    /\ (Unreadable(call.path) /\ call.op \in {"validateYamlFile", "validateMarkdownFile"}) =>
         /\ ~ret.value.valid
         /\ Len(ret.value.errors) = 1
         /\ StartsWith(ret.value.errors[1], "Parse error: EACCES")
    /\ (Unreadable(call.path) /\ call.op = "loadYamlFile") =>
         /\ ~ret.value.success
         /\ StartsWith(ret.value.error, "Failed to load file: EACCES")

\* a file that cannot be read was validated: one parse error, no not-found
C24_UnreadableFileCase ==
  /\ call.op = "validateYamlFile"
  /\ Unreadable(call.path)
  /\ ret = Return(Invalid(call.path,
                  <<"Parse error: EACCES: permission denied, open '" \o call.path \o "'">>))
  /\ ret # NotFoundOutcome(call.op, call.path)

(***************************************************************************)
(* Directory walks, one file system call at a time                         *)
(***************************************************************************)
\* a join that keeps the leading `.`
pathJoinPlain(base, rest) == PathJoin(base, rest)

pathJoin(base, rest) == IF base = "." THEN rest ELSE PathJoin(base, rest)

\* the content roots and the build output, every path in the order in
\* which the listing of its directory yields it
ContentTreePaths ==
  <<"/site/src/content", "/site/src/content/post.md", "/site/src/data",
    "/site/src/data/loop", "/site/src/data/products",
    "/site/src/data/products/course.md", "/site/src/data/resume.yaml">>
BuildTreePaths ==
  <<"/site/dist", "/site/dist/assets", "/site/dist/assets/js",
    "/site/dist/assets/js/vendor.js", "/site/dist/assets/main.def67890.js",
    "/site/dist/current.js", "/site/dist/index.html", "/site/dist/up">>
TreePaths == ContentTreePaths \o BuildTreePaths

\* symbolic links and where they lead: two cycles and a link to a file
SymlinkTargets ==
  [p \in {"/site/src/data/loop", "/site/dist/up", "/site/dist/current.js"} |->
     CASE p = "/site/src/data/loop" -> "/site/src/data"
       [] p = "/site/dist/up" -> "/site/dist"
       [] OTHER -> "/site/dist/assets/main.def67890.js"]

Symlink(target) == [type |-> "symlink", target |-> target]

\* what a build or an author writes into a file
TreeContent(p) ==
  CASE getAssetType(p) = "html" ->
         "<!DOCTYPE html><html><head><title>Test</title></head><body><p>Content</p></body></html>"
    [] getAssetType(p) = "js" -> "var x=1;function y(){return x}"
    [] OTHER -> "title: Course"

\* the node at a path of the tree, present or not
TreeNode(p, mtime) ==
  IF p \in DOMAIN SymlinkTargets THEN Symlink(SymlinkTargets[p])
  ELSE IF extname(BaseName(p)) = "" THEN Dir(TRUE)
  ELSE StampedFile(TRUE, TreeContent(p), mtime)

\* bound on the removals by other processes during one walk
MaxRemovals == 1

\* the node a path leads to; nothing outside the tree
NodeAt(tree, p) == IF resolve(p) \in DOMAIN tree THEN tree[resolve(p)] ELSE Absent
\* the tree as the call for `p` sees it
At(tree, p) == [q \in {p} |-> NodeAt(tree, p)]

\* the steps a walk still has to take, first to last
RootItem(path) == [k |-> "root", path |-> path]
EnterItem(path) == [k |-> "enter", path |-> path]
ListItem(path) == [k |-> "list", path |-> path]
FileItem(path) == [k |-> "file", path |-> path]
StatItem == [k |-> "stat"]
ReportItem == [k |-> "report"]
OperationItem == [k |-> "operation"]

\* a call that begins with the lists the call before it has left
RunningOnOldLists(agenda) ==
  [phase |-> "running", agenda |-> agenda,
   pending |-> IF call.op = "none" THEN <<>> ELSE pc.pending,
   out |-> IF call.op = "none" THEN <<>> ELSE pc.out,
   visited |-> <<>>, removals |-> 0, clock |-> ""]

\* a call begins: its lists (assets, files, manifest) are new and empty,
\* and it has not read the clock
Running(agenda) ==
  [phase |-> "running", agenda |-> agenda, pending |-> <<>>, out |-> <<>>,
   visited |-> <<>>, removals |-> 0, clock |-> ""]

\* the calls made on a tree of content and on a build output
ContentCalls == {[op |-> "generateContentManifest", basePath |-> b] : b \in {".", "/site"}}
BuildCalls ==
  {[op |-> "collectFiles", dir |-> d] :
     d \in {"dist", "/site/dist", "dist/assets", "dist/missing"}}
    \cup {[op |-> "generateBuildReport", dir |-> "dist"]}

FirstSteps(c) ==
  IF c.op = "generateContentManifest"
    THEN <<RootItem(pathJoin(c.basePath, "src/data")),
           RootItem(pathJoin(c.basePath, "src/content"))>>
  ELSE IF c.op = "collectFiles" THEN <<EnterItem(c.dir)>>
  ELSE IF c.op \in {"generateBuildReport", "validateBuildOptimization"}
    THEN <<EnterItem(c.dir), ReportItem>>
  ELSE <<OperationItem>>

\* a tree holds a path only together with the directory it lies in
Closed(S, paths) == \A p \in S : Parent(p) \in S \/ Parent(p) \notin Range(paths)

TreeOf(S, stamps) ==
  [p \in Range(TreePaths) |-> IF p \in S THEN TreeNode(p, stamps[p]) ELSE Absent]

InitWalk ==
  /\ ret = Pending /\ console = <<>>
  /\ \/ \E S \in SUBSET Range(ContentTreePaths) :
          \E stamps \in [Range(ContentTreePaths) -> Times] :
            /\ Closed(S, ContentTreePaths)
            /\ \A p \in Range(ContentTreePaths) \ S : stamps[p] = 1
            /\ fs = TreeOf(S, stamps)
            /\ call \in ContentCalls
     \/ \E S \in SUBSET Range(BuildTreePaths) :
          /\ Closed(S, BuildTreePaths)
          /\ fs = TreeOf(S, [p \in Range(BuildTreePaths) |-> 1])
          /\ call \in BuildCalls
  /\ pc = Running(FirstSteps(call))

Step == pc.phase = "running" /\ pc.agenda # <<>>
Item == Head(pc.agenda)
Rest == Tail(pc.agenda)

\* generateContentManifest: fs.existsSync(contentPath) and, if it is
\* there, the walk and the time stamps of what it finds
CheckRoot ==
  /\ Step /\ Item.k = "root"
  /\ pc' = [pc EXCEPT !.agenda =
              IF existsSync(At(fs, Item.path), Item.path)
                THEN <<EnterItem(Item.path), StatItem>> \o Rest
              ELSE Rest]
  /\ UNCHANGED <<call, ret, fs, console>>

\* collectFiles / getAllFilesRecursive: fs.existsSync(dir)
EnterDirectory ==
  /\ Step /\ Item.k = "enter"
  /\ pc' = [pc EXCEPT !.agenda =
              IF existsSync(At(fs, Item.path), Item.path)
                THEN <<ListItem(Item.path)>> \o Rest
              ELSE Rest]
  /\ UNCHANGED <<call, ret, fs, console>>

\* the names in each directory of the trees, in the order readdirSync
\* yields them
Entries ==
  [dir \in Range(TreePaths) |->
     LET children == SelectSeq(TreePaths, LAMBDA p : Parent(p) = dir)
     IN  [i \in 1..Len(children) |-> [path |-> children[i], name |-> BaseName(children[i])]]]

\* a listing whose loop passes over directories
EntryStepsFlat(tree, dir) ==
  LET children == SelectSeq(Entries[resolve(dir)], LAMBDA e : tree[e.path].type # "absent")
      step(e) == IF tree[e.path].type = "file" THEN <<FileItem(pathJoin(dir, e.name))>>
                 ELSE <<>>
      RECURSIVE steps(_)
      steps(ps) == IF ps = <<>> THEN <<>> ELSE step(Head(ps)) \o steps(Tail(ps))
  IN  steps(children)

\* a listing that takes a link to a directory for a directory
EntryStepsFollowingLinks(tree, dir) ==
  LET children == SelectSeq(Entries[resolve(dir)], LAMBDA e : tree[e.path].type # "absent")
      isDirectory(e) ==
        \/ tree[e.path].type = "dir"
        \/ tree[e.path].type = "symlink" /\ tree[tree[e.path].target].type = "dir"
      step(e) == IF isDirectory(e) THEN <<EnterItem(pathJoin(dir, e.name))>>
                 ELSE IF tree[e.path].type = "file" THEN <<FileItem(pathJoin(dir, e.name))>>
                 ELSE <<>>
      RECURSIVE steps(_)
      steps(ps) == IF ps = <<>> THEN <<>> ELSE step(Head(ps)) \o steps(Tail(ps))
  IN  steps(children)

\* the entries fs.readdirSync(dir, {withFileTypes: true}) yields, each as
\* the step the loop takes for it: a directory is walked, a file is
\* noted, anything else (a symbolic link) is passed over
EntrySteps(tree, dir) ==
  LET children == SelectSeq(Entries[resolve(dir)], LAMBDA e : tree[e.path].type # "absent")
      step(e) == IF tree[e.path].type = "dir" THEN <<EnterItem(pathJoin(dir, e.name))>>
                 ELSE IF tree[e.path].type = "file" THEN <<FileItem(pathJoin(dir, e.name))>>
                 ELSE <<>>
      RECURSIVE steps(_)
      steps(ps) == IF ps = <<>> THEN <<>> ELSE step(Head(ps)) \o steps(Tail(ps))
  IN  steps(children)

\* fs.readdirSync(dir): the listing, or the error of a directory that is
\* not there any more
ListDirectory ==
  /\ Step /\ Item.k = "list"
  /\ IF NodeAt(fs, Item.path).type = "dir"
       THEN /\ pc' = [pc EXCEPT !.agenda = EntrySteps(fs, Item.path) \o Rest,
                                !.visited = Append(pc.visited, Item.path)]
            /\ ret' = ret
       ELSE /\ pc' = [pc EXCEPT !.phase = "thrown"]
            /\ ret' = Throw("ENOENT: no such file or directory, scandir '"
                              \o Item.path \o "'")
  /\ UNCHANGED <<call, fs, console>>

\* getAssetType(entry.name) and hasContentHash(entry.name) of the names
\* in the trees
NamedAs ==
  [name \in {BaseName(p) : p \in Range(TreePaths)} |->
     [type |-> getAssetType(name), hasHash |-> hasContentHash(name)]]

\* the loop's step for a file: getAllFilesRecursive notes its path,
\* collectFiles stats it and notes path, size, type and hash flag
VisitFile ==
  /\ Step /\ Item.k = "file"
  /\ IF call.op = "generateContentManifest"
       THEN /\ pc' = [pc EXCEPT !.agenda = Rest, !.pending = Append(pc.pending, Item.path)]
            /\ ret' = ret
       ELSE IF NodeAt(fs, Item.path).type = "file"
         THEN /\ pc' = [pc EXCEPT
                          !.agenda = Rest,
                          !.out = Append(pc.out,
                                    [path |-> PathRelative(call.dir, Item.path),
                                     size |-> Len(NodeAt(fs, Item.path).content),
                                     type |-> NamedAs[BaseName(Item.path)].type,
                                     hasHash |-> NamedAs[BaseName(Item.path)].hasHash])]
              /\ ret' = ret
       ELSE /\ pc' = [pc EXCEPT !.phase = "thrown"]
            /\ ret' = Throw("ENOENT: no such file or directory, stat '" \o Item.path \o "'")
  /\ UNCHANGED <<call, fs, console>>

\* generateContentManifest: getFileModifiedTime of the next file found,
\* entered into the manifest unless it is null
StatFile ==
  /\ Step /\ Item.k = "stat"
  /\ IF pc.pending = <<>> THEN pc' = [pc EXCEPT !.agenda = Rest]
     ELSE LET file == Head(pc.pending)
              modTime == getFileModifiedTime(At(fs, file), file).value
          IN  pc' = [pc EXCEPT
                       !.pending = Tail(pc.pending),
                       !.out = IF modTime # Null
                                 THEN Append(pc.out, [file |-> file, time |-> modTime.n])
                               ELSE pc.out]
  /\ UNCHANGED <<call, ret, fs, console>>

\* generateBuildReport after collectFiles: the report on the assets
\* found, stamped with the reading of the clock; validateBuildOptimization
\* turns its checks into errors; a call that throws at the read of a sample
\* has not read the clock
MakeReport(now) ==
  /\ Step /\ Item.k = "report"
  /\ LET tree == [q \in {PathJoin(call.dir, pc.out[i].path) : i \in 1..Len(pc.out)} |->
                    NodeAt(fs, q)]
         report == BuildReportOf(tree, call.dir, pc.out, now)
     IN  /\ ret' = IF call.op = "validateBuildOptimization" THEN ValidationOf(report)
                   ELSE report
         /\ pc' = [pc EXCEPT !.phase = IF report.t = "throw" THEN "thrown" ELSE "returned",
                             !.agenda = Rest,
                             !.clock = IF report.t = "throw" THEN pc.clock ELSE now]
  /\ UNCHANGED <<call, fs, console>>

\* collectFiles and generateContentManifest return what they gathered
ReturnResult ==
  /\ pc.phase = "running" /\ pc.agenda = <<>>
  /\ ret' = Return(pc.out)
  /\ pc' = [pc EXCEPT !.phase = "returned"]
  /\ UNCHANGED <<call, fs, console>>

\* another process removes a file, a link or a directory with all it
\* holds from the content roots while the manifest is generated
Remove(path) ==
  /\ call.op = "generateContentManifest" /\ pc.phase = "running"
  /\ pc.removals < MaxRemovals
  /\ fs[path].type # "absent"
  /\ fs' = [q \in DOMAIN fs |->
              IF q = path \/ StartsWith(q, path \o "/") THEN Absent ELSE fs[q]]
  /\ pc' = [pc EXCEPT !.removals = pc.removals + 1]
  /\ UNCHANGED <<call, ret, console>>

WalkStep ==
  \/ CheckRoot
  \/ EnterDirectory
  \/ ListDirectory
  \/ VisitFile
  \/ StatFile
  \/ \E now \in Timestamps : MakeReport(now)
  \/ ReturnResult

NextWalk ==
  \/ WalkStep
  \/ \E path \in Range(ContentTreePaths) : Remove(path)

SpecWalk == InitWalk /\ [][NextWalk]_vars

\* the walk is a synchronous computation: it takes its next step
SpecWalkFair == SpecWalk /\ WF_vars(WalkStep)

\* the regular files of the tree below a directory
FilesBelow(tree, dir) ==
  {p \in Range(TreePaths) : tree[p].type = "file" /\ StartsWith(p, resolve(dir) \o "/")}

\* C21: collectFiles(dir) returns exactly one AssetInfo per regular file
\* anywhere below dir and nothing else, with the path relative to dir,
\* the type getAssetType of the file name and hasHash hasContentHash of
\* the file name; for a dir that does not exist it returns the empty list
\* and raises no error.
C21_OneAssetPerRegularFile ==
  (call.op = "collectFiles" /\ pc.phase # "running") =>
    /\ ret.t = "return"
    /\ Len(ret.value) = Cardinality(FilesBelow(fs, call.dir))
    /\ \A p \in FilesBelow(fs, call.dir) :
         \E i \in 1..Len(ret.value) :
           /\ ret.value[i].path = SubSeq(p, Len(resolve(call.dir)) + 2, Len(p))
           /\ ret.value[i].type = getAssetType(BaseName(p))
           /\ ret.value[i].hasHash = hasContentHash(BaseName(p))
    /\ NodeAt(fs, call.dir).type = "absent" => ret.value = <<>>

\* a build output with a file two directories down and both links was
\* collected
C21_NestedFileCase ==
  /\ call = [op |-> "collectFiles", dir |-> "dist"]
  /\ pc.phase = "returned"
  /\ fs["/site/dist/up"].type = "symlink" /\ fs["/site/dist/current.js"].type = "symlink"
  /\ fs["/site/dist/index.html"].type = "file"
  /\ Len(ret.value) = 3
  /\ ret.value[1] = [path |-> "assets/js/vendor.js", size |-> 30, type |-> "js",
                     hasHash |-> FALSE]

\* the entries of a manifest as a set of path-time pairs
ManifestEntries(m) == {<<m[i].file, m[i].time>> : i \in 1..Len(m)}

ContentFiles(tree) == {p \in Range(ContentTreePaths) : tree[p].type = "file"}

\* C22 as claimed: the keys of generateContentManifest(basePath) are exactly
\* the absolute paths of the regular files below basePath/src/data and
\* basePath/src/content, each mapped to the file's modification time, for
\* every basePath, the relative '.' included.
C22_KeysAreAbsolutePaths ==
  (call.op = "generateContentManifest" /\ pc.phase = "returned" /\ pc.removals = 0) =>
    /\ ManifestEntries(ret.value) = {<<p, fs[p].mtime>> : p \in ContentFiles(fs)}
    /\ Len(ret.value) = Cardinality(ContentFiles(fs))

\* C22 as the code has it: the keys are the paths of those files as the
\* walk forms them from basePath, absolute when basePath is absolute and
\* relative to the working directory when basePath is relative (for '.':
\* src/data/... and src/content/...).
C22_KeysFollowBasePath ==
  (call.op = "generateContentManifest" /\ pc.phase = "returned" /\ pc.removals = 0) =>
    LET key(p) == IF StartsWith(call.basePath, "/") THEN p
                  ELSE SubSeq(p, Len(Cwd) + 2, Len(p))
    IN  /\ ManifestEntries(ret.value) = {<<key(p), fs[p].mtime>> : p \in ContentFiles(fs)}
        /\ Len(ret.value) = Cardinality(ContentFiles(fs))

\* the manifest generated for '.' has a relative key for a nested file
C22_RelativeKeyCase ==
  /\ call = [op |-> "generateContentManifest", basePath |-> "."]
  /\ pc.phase = "returned" /\ pc.removals = 0
  /\ fs["/site/src/content"].type = "absent"
  /\ fs["/site/src/data/resume.yaml"].type = "file"
  /\ fs["/site/src/data/products/course.md"].type = "file"
  /\ fs["/site/src/data/products/course.md"].mtime = 2
  /\ ret.value[1] = [file |-> "src/data/products/course.md", time |-> 2]

\* the walk so far: no directory listed twice, no link listed or noted
WalkIsBounded ==
  /\ NoDuplicates(pc.visited)
  /\ \A i \in 1..Len(pc.visited) : resolve(pc.visited[i]) \notin DOMAIN SymlinkTargets
  /\ \A i \in 1..Len(pc.agenda) :
       "path" \in DOMAIN pc.agenda[i] => resolve(pc.agenda[i].path) \notin DOMAIN SymlinkTargets
  /\ \A i \in 1..Len(pc.pending) : resolve(pc.pending[i]) \notin DOMAIN SymlinkTargets
  /\ (pc.phase = "running" /\ call.op # "generateBuildReport") =>
       \A i \in 1..Len(pc.out) :
         LET found == IF call.op = "collectFiles"
                        THEN PathJoin(resolve(call.dir), pc.out[i].path)
                      ELSE resolve(pc.out[i].file)
         IN  found \notin DOMAIN SymlinkTargets

Terminated == pc.phase \in {"returned", "thrown"}

\* C26: every walk (collectFiles, generateBuildReport,
\* generateContentManifest) terminates on every finite tree: no directory
\* is visited twice, an entry that is a symbolic link is neither descended
\* into nor reported as a file, and so a cycle of links cannot keep the
\* walk going.
C26_WalkTerminates == []WalkIsBounded /\ <>Terminated

\* a manifest was returned for a tree in which src/data/loop leads back
\* to src/data
C26_LinkCycleCase ==
  /\ call.op = "generateContentManifest" /\ pc.phase = "returned"
  /\ fs["/site/src/data/loop"] = Symlink("/site/src/data")
  /\ fs["/site/src/data/products"].type = "dir"
  /\ Len(pc.visited) = 2
  /\ Len(ret.value) = 1

\* C30: a file or directory that another process removes below the
\* content roots while generateContentManifest walks them cannot make the
\* call throw: it returns a manifest, and every value in it is a number.
C30_RemovalNeverThrows ==
  (call.op = "generateContentManifest") =>
    /\ pc.phase # "thrown"
    /\ pc.phase = "returned" =>
         /\ ret.t = "return"
         /\ \A i \in 1..Len(ret.value) : ret.value[i].time \in Nat

\* C30 for removals of files and links only
C30_FileRemovalNeverThrows ==
  (call.op = "generateContentManifest"
     /\ \A p \in Range(ContentTreePaths) :
          (extname(BaseName(p)) = "" /\ p \notin DOMAIN SymlinkTargets) => fs[p].type = "dir") =>
    /\ pc.phase # "thrown"
    /\ pc.phase = "returned" =>
         /\ ret.t = "return"
         /\ \A i \in 1..Len(ret.value) : ret.value[i].time \in Nat

(***************************************************************************)
(* Invocations one after the other on one snapshot                         *)
(***************************************************************************)
\* bound on the invocations one process makes one after the other
MaxInvocations == 3

\* the snapshots: one content file in an otherwise empty content tree
\* (built by PlaceFile), a tree of content to walk, or a build output
WalkTrees ==
  {TreeOf(S, [p \in Range(TreePaths) |-> 1]) :
     S \in {T \in SUBSET Range(ContentTreePaths) : Closed(T, ContentTreePaths)}
            \cup {T \in SUBSET Range(BuildTreePaths) : Closed(T, BuildTreePaths)}}

\* the calls made on a snapshot
CallsOn(files) ==
  IF DOMAIN files = AllPaths
    THEN {[op |-> "loadYamlFile", path |-> p] : p \in Range(YamlPaths) \cap Present(files)}
           \cup {[op |-> "validateYamlFile", path |-> p] :
                   p \in Range(YamlPaths) \cap Present(files)}
           \cup {[op |-> "validateMarkdownFile", path |-> p] :
                   p \in Range(EntryPaths) \cap Present(files)}
           \cup {[op |-> "validateAllContent"]}
  ELSE IF files["/site/dist"].type # "absent"
    THEN {[op |-> o, dir |-> "dist"] :
            o \in {"collectFiles", "generateBuildReport", "validateBuildOptimization"}}
  ELSE ContentCalls

\* what an operation made of one step returns on the tree `files` when
\* the clock reads `now`
Outcome(c, files, now) ==
  CASE c.op = "loadYamlFile" -> Return(loadYamlFile(files, c.path, FileSchema(c.path)))
    [] c.op = "validateYamlFile" -> Return(validateYamlFile(files, c.path, FileSchema(c.path)))
    [] c.op = "validateMarkdownFile" ->
         Return(validateMarkdownFile(files, c.path, productSchema))
    [] c.op = "validateAllContent" -> validateAllContent(files, now)

InitPurity ==
  /\ fs \in {EmptyFs} \cup WalkTrees
  /\ call = Idle /\ ret = Pending /\ pc = "idle" /\ console = <<>>

\* the process is between two calls
Finished == IF call = Idle THEN TRUE ELSE pc.phase \in {"returned", "thrown"}

\* the calls the process has completed, each with its result
Completed == IF call = Idle THEN <<>> ELSE Append(pc.log, [call |-> call, ret |-> ret])

\* the process calls an operation; what the calls before it have left in
\* the process is still there
Invoke(c) ==
  /\ Finished
  /\ Len(Completed) < MaxInvocations
  /\ call' = c
  /\ ret' = Pending
  /\ pc' = Running(FirstSteps(c)) @@ [log |-> Completed]
  /\ UNCHANGED <<fs, console>>

\* loadYamlFile, validateYamlFile, validateMarkdownFile, validateAllContent;
\* validateAllContent reads the clock when it builds its report, not when
\* it throws before
RunOperation(now) ==
  /\ Step /\ Item.k = "operation"
  /\ ret' = Outcome(call, fs, now)
  /\ pc' = [pc EXCEPT !.phase = IF ret'.t = "throw" THEN "thrown" ELSE "returned",
                      !.agenda = Rest,
                      !.clock = IF call.op = "validateAllContent" /\ ret'.t = "return"
                                  THEN now ELSE pc.clock]
  /\ UNCHANGED <<call, fs, console>>

NextPurity ==
  \/ /\ call = Idle /\ DOMAIN fs = AllPaths
     /\ \E path \in ContentPaths : \E node \in CoarseNodes(path) : PlaceFile(path, node)
  \/ \E c \in CallsOn(fs) : Invoke(c)
  \/ call # Idle /\ WalkStep
  \/ call # Idle /\ \E now \in Timestamps : RunOperation(now)

SpecPurity == InitPurity /\ [][NextPurity]_vars

\* a call has been completed, and the earlier calls with its arguments
Done == call # Idle /\ pc.phase \in {"returned", "thrown"}
EarlierCalls == {i \in 1..Len(pc.log) : pc.log[i].call = call}

\* a result without the time of its report
WithoutTimestamp(r) ==
  IF r.t # "return" THEN r
  ELSE IF call.op \in {"generateBuildReport", "validateAllContent"}
    THEN Return([k \in DOMAIN r.value \ {"timestamp"} |-> r.value[k]])
  ELSE IF call.op = "validateBuildOptimization"
    THEN Return([r.value EXCEPT
                   !.report = [k \in DOMAIN r.value.report \ {"timestamp"} |->
                                 r.value.report[k]]])
  ELSE r

\* C25 as claimed: two invocations with the same arguments on the same
\* file system snapshot return results that are equal in every field, the
\* reports of validateAllContent, generateBuildReport and
\* validateBuildOptimization included, whatever was called in between.
C25_RepeatedCallSameResult ==
  Done => \A i \in EarlierCalls : pc.log[i].ret = ret

\* C25 as the code has it: two invocations with the same arguments on the
\* same snapshot return results that are equal in every field except the
\* timestamp of the report, which is the reading of the clock during the
\* invocation; nothing an earlier call has left changes the result.
C25_RepeatedCallSameButTimestamp ==
  Done =>
    /\ \A i \in EarlierCalls : WithoutTimestamp(pc.log[i].ret) = WithoutTimestamp(ret)
    /\ (call.op \in {"generateBuildReport", "validateAllContent"} /\ ret.t = "return")
         => ret.value.timestamp = pc.clock
    /\ (call.op = "validateBuildOptimization" /\ ret.t = "return")
         => ret.value.report.timestamp = pc.clock

\* a build report on three files was generated a second time, at another
\* reading of the clock
C25_SecondBuildReportCase ==
  /\ Done
  /\ call.op = "generateBuildReport"
  /\ Len(pc.log) = 1 /\ pc.log[1].call = call
  /\ ret.t = "return"
  /\ ret.value.summary.totalFiles = 3
  /\ Len(ret.value.assets) = 3
  /\ pc.log[1].ret.value.timestamp # ret.value.timestamp
  /\ pc.log[1].ret.value.assets = ret.value.assets

====
